---- MODULE Spec2Model ----
(***************************************************************************)
(* A model of the Janggi rules engine of Janggi.py: the board of piece     *)
(* objects, the per-kind move generators, check_move, the check and        *)
(* checkmate analysis with its speculative trials, and make_move.          *)
(*                                                                         *)
(* Representation.                                                         *)
(*  - A position in algebraic notation (the string 'a10') is the pair      *)
(*    <<code of its first character, integer value of the rest>>, so       *)
(*    'a10' is <<97, 10>>.  The string 'CAPTURED' is CAPTURED.             *)
(*  - List coordinates [row, col] are the pair <<row, col>>.               *)
(*  - A piece object is an identity 1..32 with a fixed class and colour    *)
(*    and a mutable _pos (the variable pos); a NoPiece object is 0 (its    *)
(*    _pos is never read by the engine and is not modelled).               *)
(*  - The board is the list of rows: board[row][col], row 0..9, col 0..8.  *)
(*  - board, pos, turn and game_state are the fields of the game object    *)
(*    and of its pieces; attacker belongs to the callers of make_move: it  *)
(*    names the set of requests the callers of one behaviour draw from.    *)
(*  - call and ret belong to the callers of the methods that read no game  *)
(*    (possible_moves of a piece, the translations): the method called     *)
(*    with its argument, and the list of the values returned.              *)
(*  - A subscript of the board follows the rule of a Python list: a        *)
(*    negative one counts from the end, one beyond the list raises         *)
(*    IndexError.                                                          *)
(***************************************************************************)
EXTENDS Integers, Sequences, FiniteSets, TLC

VARIABLES board, pos, turn, game_state, attacker, call, ret

vars == <<board, pos, turn, game_state, attacker, call, ret>>

(***************************************************************************)
(* Notation helpers.                                                       *)
(***************************************************************************)
Ord == [a |-> 97, b |-> 98, c |-> 99, d |-> 100, e |-> 101,
        f |-> 102, g |-> 103, h |-> 104, i |-> 105]

CAPTURED == <<"CAPTURED">>

Rows == 0..9

Cols == 0..8

Last(s) == s[Len(s)]

\* str.lower() on a one-character string, by character code
Lower(ch) == IF ch \in 65..90 THEN ch + 32 ELSE ch

\* x in lst, for a Python list lst
InList(x, lst) == \E k \in 1..Len(lst) : lst[k] = x

\* Piece.translate_to_list_coords / JanggiGame.translate_to_list_coords
translate_to_list_coords(p) == <<p[2] - 1, Lower(p[1]) - 97>>

\* a translate_to_alg_coords that keeps the row index as the row number
translate_to_alg_coords_row_index(lp) == <<lp[2] + 97, lp[1]>>

\* Piece.translate_to_alg_coords / JanggiGame.translate_to_alg_coords
translate_to_alg_coords(lp) == <<lp[2] + 97, lp[1] + 1>>

\* a within_board that looks at the column letter only
within_board_any_row(p) == ~(Lower(p[1]) > Ord.i \/ Lower(p[1]) < Ord.a)

\* Piece.within_board
within_board(p) ==
    ~(Lower(p[1]) > Ord.i \/ Lower(p[1]) < Ord.a \/ p[2] > 10 \/ p[2] < 1)

\* Piece.in_palace
palace_areas ==
    << <<Ord.d, 1>>, <<Ord.e, 1>>, <<Ord.f, 1>>, <<Ord.d, 2>>, <<Ord.e, 2>>,
       <<Ord.f, 2>>, <<Ord.d, 3>>, <<Ord.e, 3>>, <<Ord.f, 3>>,
       <<Ord.d, 8>>, <<Ord.e, 8>>, <<Ord.f, 8>>, <<Ord.d, 9>>, <<Ord.e, 9>>,
       <<Ord.f, 9>>, <<Ord.d, 10>>, <<Ord.e, 10>>, <<Ord.f, 10>> >>

\* an in_palace that takes every square for a Palace square
in_palace_everywhere(p) == TRUE

in_palace(p) == InList(p, palace_areas)

\* the translation loops of the generators: every square of every path
AlgPaths(paths) ==
    [m \in 1..Len(paths) |->
        [s \in 1..Len(paths[m]) |-> translate_to_alg_coords(paths[m][s])]]

(***************************************************************************)
(* Move generators (possible_moves of each piece class).  Each returns the *)
(* list of candidate paths, in the order the code appends them.            *)
(***************************************************************************)
\* a Soldier without the diagonal steps of the Palace
SoldierMoves_no_diagonal(color, p) ==
    LET ahead == IF color = "R" THEN 1 ELSE -1
        steps == << <<p[1], p[2] + ahead>>, <<p[1] + 1, p[2]>>, <<p[1] - 1, p[2]>> >>
        kept == SelectSeq(steps, within_board)
    IN [m \in 1..Len(kept) |-> <<kept[m]>>]

SoldierMoves(color, p) ==
    LET coords == translate_to_list_coords(p)
        row == coords[1]
        col == coords[2]
        red == IF color = "R"
               THEN << <<row + 1, col>>, <<row, col + 1>>, <<row, col - 1>> >>
                    \o (IF p = <<Ord.d, 8>> THEN << <<row + 1, col + 1>> >>
                        ELSE IF p = <<Ord.f, 8>> THEN << <<row + 1, col - 1>> >>
                        ELSE IF p = <<Ord.e, 9>>
                             THEN << <<row + 1, col + 1>>, <<row + 1, col - 1>> >>
                        ELSE << >>)
               ELSE << >>
        blue == IF color = "B"
                THEN << <<row - 1, col>>, <<row, col + 1>>, <<row, col - 1>> >>
                     \o (IF p = <<Ord.d, 3>> THEN << <<row - 1, col + 1>> >>
                         ELSE IF p = <<Ord.f, 3>> THEN << <<row - 1, col - 1>> >>
                         ELSE IF p = <<Ord.e, 2>>
                              THEN << <<row - 1, col + 1>>, <<row - 1, col - 1>> >>
                         ELSE << >>)
                ELSE << >>
        possible_moves == red \o blue
        possible_moves_alg ==
            [m \in 1..Len(possible_moves) |-> translate_to_alg_coords(possible_moves[m])]
        kept == SelectSeq(possible_moves_alg, within_board)
    IN [m \in 1..Len(kept) |-> <<kept[m]>>]

HorseTemplates(row, col) ==
    << << <<row - 1, col>>, <<row - 2, col + 1>> >>,
       << <<row - 1, col>>, <<row - 2, col - 1>> >>,
       << <<row, col + 1>>, <<row - 1, col + 2>> >>,
       << <<row, col + 1>>, <<row + 1, col + 2>> >>,
       << <<row, col - 1>>, <<row - 1, col - 2>> >>,
       << <<row, col - 1>>, <<row + 1, col - 2>> >>,
       << <<row + 1, col>>, <<row + 2, col + 1>> >>,
       << <<row + 1, col>>, <<row + 2, col - 1>> >> >>

HorseKeep(path) == within_board(path[1]) /\ within_board(path[2])

HorseMoves(p) ==
    LET coords == translate_to_list_coords(p)
        possible_moves_alg == AlgPaths(HorseTemplates(coords[1], coords[2]))
    IN SelectSeq(possible_moves_alg, HorseKeep)

ElephantTemplates(row, col) ==
    << << <<row - 1, col>>, <<row - 2, col + 1>>, <<row - 3, col + 2>> >>,
       << <<row - 1, col>>, <<row - 2, col - 1>>, <<row - 3, col - 2>> >>,
       << <<row, col + 1>>, <<row - 1, col + 2>>, <<row - 2, col + 3>> >>,
       << <<row, col + 1>>, <<row + 1, col + 2>>, <<row + 2, col + 3>> >>,
       << <<row, col - 1>>, <<row - 1, col - 2>>, <<row - 2, col - 3>> >>,
       << <<row, col - 1>>, <<row + 1, col - 2>>, <<row + 2, col - 3>> >>,
       << <<row + 1, col>>, <<row + 2, col + 1>>, <<row + 3, col + 2>> >>,
       << <<row + 1, col>>, <<row + 2, col - 1>>, <<row + 3, col - 2>> >> >>

\* the squares of one candidate that are on the board
ElephantTemp(path) == SelectSeq(path, within_board)

\* an Elephant that keeps what is left of a candidate that leaves the board
ElephantKeep_shortened(temp) == Len(temp) >= 1

ElephantKeep(temp) == Len(temp) >= 3

ElephantMoves(p) ==
    LET coords == translate_to_list_coords(p)
        possible_moves_alg == AlgPaths(ElephantTemplates(coords[1], coords[2]))
        temps == [m \in 1..Len(possible_moves_alg) |-> ElephantTemp(possible_moves_alg[m])]
    IN SelectSeq(temps, ElephantKeep)

GeneralMoves(p) ==
    LET coords == translate_to_list_coords(p)
        row == coords[1]
        col == coords[2]
        orth == << <<row - 1, col>>, <<row + 1, col>>, <<row, col + 1>>, <<row, col - 1>> >>
        diag == IF p = <<Ord.d, 1>> \/ p = <<Ord.d, 8>> THEN << <<row + 1, col + 1>> >>
                ELSE IF p = <<Ord.f, 1>> \/ p = <<Ord.f, 8>> THEN << <<row + 1, col - 1>> >>
                ELSE IF p = <<Ord.d, 3>> \/ p = <<Ord.d, 10>> THEN << <<row - 1, col + 1>> >>
                ELSE IF p = <<Ord.f, 3>> \/ p = <<Ord.f, 10>> THEN << <<row - 1, col - 1>> >>
                ELSE IF p = <<Ord.e, 2>> \/ p = <<Ord.e, 9>>
                     THEN << <<row + 1, col + 1>>, <<row + 1, col - 1>>,
                             <<row - 1, col + 1>>, <<row - 1, col - 1>> >>
                ELSE << >>
        possible_moves == orth \o diag
        possible_moves_alg ==
            [m \in 1..Len(possible_moves) |-> translate_to_alg_coords(possible_moves[m])]
        OnBoardInPalace(q) == within_board(q) /\ in_palace(q)
        kept == SelectSeq(possible_moves_alg, OnBoardInPalace)
    IN [m \in 1..Len(kept) |-> <<kept[m]>>]

\* a slide that goes to the edge of the board or not at all
Slide_to_the_edge(row, col, dr, dc, n) ==
    IF n = 0 THEN << >> ELSE << [j \in 1..n |-> <<row + j * dr, col + j * dc>>] >>

\* one slide of the Chariot: the paths of length 1..n along (dr, dc)
Slide(row, col, dr, dc, n) ==
    [k \in 1..n |-> [j \in 1..k |-> <<row + j * dr, col + j * dc>>]]

ChariotMoves(p) ==
    LET coords == translate_to_list_coords(p)
        row == coords[1]
        col == coords[2]
        up == Slide(row, col, -1, 0, row)
        down == Slide(row, col, 1, 0, 9 - row)
        right == Slide(row, col, 0, 1, 8 - col)
        left == Slide(row, col, 0, -1, col)
        diag == IF p = <<Ord.d, 1>> \/ p = <<Ord.d, 8>>
                THEN << << <<row + 1, col + 1>> >>,
                        << <<row + 1, col + 1>>, <<row + 2, col + 2>> >> >>
                ELSE IF p = <<Ord.f, 1>> \/ p = <<Ord.f, 8>>
                THEN << << <<row + 1, col - 1>> >>,
                        << <<row + 1, col - 1>>, <<row + 2, col - 2>> >> >>
                ELSE IF p = <<Ord.d, 3>> \/ p = <<Ord.d, 10>>
                THEN << << <<row - 1, col + 1>> >>,
                        << <<row - 1, col + 1>>, <<row - 2, col + 2>> >> >>
                ELSE IF p = <<Ord.f, 3>> \/ p = <<Ord.f, 10>>
                THEN << << <<row - 1, col - 1>> >>,
                        << <<row - 1, col - 1>>, <<row - 2, col - 2>> >> >>
                ELSE IF p = <<Ord.e, 2>> \/ p = <<Ord.e, 9>>
                THEN << << <<row - 1, col + 1>> >>, << <<row - 1, col - 1>> >>,
                        << <<row + 1, col + 1>> >>, << <<row + 1, col - 1>> >> >>
                ELSE << >>
    IN AlgPaths(up \o down \o right \o left \o diag)

\* dynamic dispatch of start_piece.possible_moves()
possible_moves(class, color, p) ==
    CASE class = "Soldier" -> SoldierMoves(color, p)
      [] class = "Horse" -> HorseMoves(p)
      [] class = "Elephant" -> ElephantMoves(p)
      [] class = "General" -> GeneralMoves(p)
      [] class = "Guard" -> GeneralMoves(p)
      [] class = "Chariot" -> ChariotMoves(p)
      [] class = "Cannon" -> ChariotMoves(p)

(***************************************************************************)
(* Piece objects.  The pieces JanggiGame.__init__ creates, in the order of *)
(* its assignments: board row, board column, class, colour, _pos.          *)
(***************************************************************************)
InitialPieces ==
    << <<0, 0, "Chariot", "R", <<Ord.a, 1>> >>,
       <<0, 1, "Elephant", "R", <<Ord.b, 1>> >>,
       <<0, 2, "Horse", "R", <<Ord.c, 1>> >>,
       <<0, 3, "Guard", "R", <<Ord.d, 1>> >>,
       <<0, 5, "Guard", "R", <<Ord.f, 1>> >>,
       <<0, 6, "Elephant", "R", <<Ord.g, 1>> >>,
       <<0, 7, "Horse", "R", <<Ord.h, 1>> >>,
       <<0, 8, "Chariot", "R", <<Ord.i, 1>> >>,
       <<1, 4, "General", "R", <<Ord.e, 2>> >>,
       <<2, 1, "Cannon", "R", <<Ord.b, 3>> >>,
       <<2, 7, "Cannon", "R", <<Ord.h, 3>> >>,
       <<3, 0, "Soldier", "R", <<Ord.a, 4>> >>,
       <<3, 2, "Soldier", "R", <<Ord.c, 4>> >>,
       <<3, 4, "Soldier", "R", <<Ord.e, 4>> >>,
       <<3, 6, "Soldier", "R", <<Ord.g, 4>> >>,
       <<3, 8, "Soldier", "R", <<Ord.i, 4>> >>,
       <<9, 0, "Chariot", "B", <<Ord.a, 10>> >>,
       <<9, 1, "Elephant", "B", <<Ord.b, 10>> >>,
       <<9, 2, "Horse", "B", <<Ord.c, 10>> >>,
       <<9, 3, "Guard", "B", <<Ord.d, 10>> >>,
       <<9, 5, "Guard", "B", <<Ord.f, 10>> >>,
       <<9, 6, "Elephant", "B", <<Ord.g, 10>> >>,
       <<9, 7, "Horse", "B", <<Ord.h, 10>> >>,
       <<9, 8, "Chariot", "B", <<Ord.i, 10>> >>,
       <<8, 4, "General", "B", <<Ord.e, 9>> >>,
       <<7, 1, "Cannon", "B", <<Ord.b, 8>> >>,
       <<7, 7, "Cannon", "B", <<Ord.h, 8>> >>,
       <<6, 0, "Soldier", "B", <<Ord.a, 7>> >>,
       <<6, 2, "Soldier", "B", <<Ord.c, 7>> >>,
       <<6, 4, "Soldier", "B", <<Ord.e, 7>> >>,
       <<6, 6, "Soldier", "B", <<Ord.g, 7>> >>,
       <<6, 8, "Soldier", "B", <<Ord.i, 7>> >> >>

Pieces == 1..Len(InitialPieces)

\* the NoPiece object
NoPiece == 0

\* type(piece)
TypeOf(x) == IF x = NoPiece THEN "NoPiece" ELSE InitialPieces[x][3]

\* piece.get_color(); a NoPiece has colour "X"
get_color(x) == IF x = NoPiece THEN "X" ELSE InitialPieces[x][4]

\* the value None
None == <<"None">>

\* the squares of the board in the order of the nested row/column loops
AllCoords == [k \in 1..90 |-> <<(k - 1) \div 9, (k - 1) % 9>>]

\* the slot a list of n slots gives for the subscript i: a negative
\* subscript counts from the end of the list
Index(i, n) == IF i < 0 THEN i + n ELSE i

\* the subscripts rc are outside the ranges of the board: the subscription
\* raises IndexError
raises_IndexError(rc) == Index(rc[1], 10) \notin Rows \/ Index(rc[2], 9) \notin Cols

\* self.get_board()[row][col]
At(b, rc) == b[Index(rc[1], 10)][Index(rc[2], 9)]

\* self.get_board()[row][col] = x
Put(b, rc, x) == [b EXCEPT ![Index(rc[1], 10)][Index(rc[2], 9)] = x]

\* JanggiGame.shorten_color
shorten_color(color) ==
    IF color \notin {"red", "blue"}
    THEN "Please enter a valid color, \"red\" or \"blue\" only."
    ELSE IF color = "red" THEN "R" ELSE "B"

(***************************************************************************)
(* Move validation.  A local variable of the code that is read more than   *)
(* once is a parameter of the operator that models the code reading it.    *)
(***************************************************************************)
\* a path_ok_non_cannon that looks at the first square of the path only
path_ok_first_square(b, path) ==
    \A k \in 1..Len(path) : k = 1 => TypeOf(At(b, translate_to_list_coords(path[k]))) = "NoPiece"

\* JanggiGame.path_ok_non_cannon
path_ok_non_cannon(b, path) ==
    \A k \in 1..Len(path) : TypeOf(At(b, translate_to_list_coords(path[k]))) = "NoPiece"

\* the list jump_piece of path_ok_cannon: the pieces standing on the path
jump_piece_of(b, path) ==
    LET Occupied(q) == TypeOf(At(b, translate_to_list_coords(q))) # "NoPiece"
    IN [q \in 1..Len(SelectSeq(path, Occupied)) |->
          At(b, translate_to_list_coords(SelectSeq(path, Occupied)[q]))]

\* tests of path_ok_cannon that let a Cannon be jumped over
jump_ok_over_cannon(jump_piece) ==
    IF Len(jump_piece) = 0 THEN FALSE
    ELSE IF Len(jump_piece) > 1 THEN FALSE
    ELSE TRUE

\* the tests of path_ok_cannon on jump_piece
jump_ok(jump_piece) ==
    IF Len(jump_piece) = 0 THEN FALSE
    ELSE IF Len(jump_piece) > 1 THEN FALSE
    ELSE IF Len(jump_piece) = 1 /\ TypeOf(jump_piece[1]) = "Cannon" THEN FALSE
    ELSE TRUE

\* JanggiGame.path_ok_cannon
path_ok_cannon(b, path) == jump_ok(jump_piece_of(b, path))

\* possible_moves tabulated over the classes, the colours and the 90
\* squares, so that a call is a lookup
Classes == {"Soldier", "Horse", "Elephant", "General", "Guard", "Chariot", "Cannon"}

Squares == {translate_to_alg_coords(<<row, col>>) : row \in Rows, col \in Cols}

possible_moves_table ==
    [class \in Classes |->
       [color \in {"R", "B"} |-> [p \in Squares |-> possible_moves(class, color, p)]]]

\* piece.possible_moves() for the piece object x whose _pos is p
start_piece_possible_moves(x, p) == possible_moves_table[TypeOf(x)][get_color(x)][p]

\* a returned message (a str) and a returned path (a list)
Str(m) == [is_list |-> FALSE, msg |-> m, path |-> << >>]

List(p) == [is_list |-> TRUE, msg |-> "", path |-> p]

\* the loop of check_move that looks for a path ending on p2
in_legal_moves(moves, p2) == \E m \in 1..Len(moves) : Last(moves[m]) = p2

\* path_to_pos2 after that loop: the last candidate whose final square is p2
path_to(moves, p2) ==
    moves[CHOOSE m \in 1..Len(moves) :
            /\ Last(moves[m]) = p2
            /\ \A n \in 1..Len(moves) : Last(moves[n]) = p2 => n <= m]

\* in_between: the path without its final square
in_between_of(path_to_pos2) == SubSeq(path_to_pos2, 1, Len(path_to_pos2) - 1)

\* a check_move without the test of the destination's colour
check_move_own_capture(b, start_piece, end_piece, path_to_pos2) ==
    IF TypeOf(start_piece) # "Cannon" /\ ~path_ok_non_cannon(b, in_between_of(path_to_pos2))
    THEN Str("Path is blocked.")
    ELSE IF TypeOf(start_piece) = "Cannon" /\ ~path_ok_cannon(b, in_between_of(path_to_pos2))
    THEN Str("Cannons need another piece to jump over.")
    ELSE IF TypeOf(start_piece) = "Cannon" /\ TypeOf(end_piece) = "Cannon"
    THEN Str("Cannons can't capture other cannons.")
    ELSE List(path_to_pos2)

\* a check_move without the test of a Cannon's destination
check_move_cannon_capture(b, start_piece, end_piece, path_to_pos2) ==
    IF TypeOf(start_piece) # "Cannon" /\ ~path_ok_non_cannon(b, in_between_of(path_to_pos2))
    THEN Str("Path is blocked.")
    ELSE IF TypeOf(start_piece) = "Cannon" /\ ~path_ok_cannon(b, in_between_of(path_to_pos2))
    THEN Str("Cannons need another piece to jump over.")
    ELSE IF get_color(end_piece) = get_color(start_piece)
    THEN Str("End position blocked by same team's piece.")
    ELSE List(path_to_pos2)

\* check_move once path_to_pos2 is found (lines 263-286)
check_move_path(b, start_piece, end_piece, path_to_pos2) ==
    IF TypeOf(start_piece) # "Cannon" /\ ~path_ok_non_cannon(b, in_between_of(path_to_pos2))
    THEN Str("Path is blocked.")
    ELSE IF TypeOf(start_piece) = "Cannon" /\ ~path_ok_cannon(b, in_between_of(path_to_pos2))
    THEN Str("Cannons need another piece to jump over.")
    ELSE IF get_color(end_piece) = get_color(start_piece)
    THEN Str("End position blocked by same team's piece.")
    ELSE IF TypeOf(start_piece) = "Cannon" /\ TypeOf(end_piece) = "Cannon"
    THEN Str("Cannons can't capture other cannons.")
    ELSE List(path_to_pos2)

\* check_move once possible_moves is computed (lines 248-286)
check_move_moves(b, p2, start_piece, end_piece, moves) ==
    IF ~in_legal_moves(moves, p2) THEN Str("Not a valid move.")
    ELSE check_move_path(b, start_piece, end_piece, path_to(moves, p2))

\* check_move once start_piece and end_piece are read (lines 235-286)
check_move_pieces(b, ps, p1, p2, start_piece, end_piece) ==
    IF p1 = p2 THEN Str("PASS")
    ELSE IF TypeOf(start_piece) = "NoPiece"
    THEN Str("You must select a piece to move or pass.")
    ELSE check_move_moves(b, p2, start_piece, end_piece,
                          start_piece_possible_moves(start_piece, ps[start_piece]))

\* JanggiGame.check_move
check_move(b, ps, p1, p2) ==
    check_move_pieces(b, ps, p1, p2, At(b, translate_to_list_coords(p1)),
                      At(b, translate_to_list_coords(p2)))

(***************************************************************************)
(* Check analysis.  An operation that tries moves on the board returns the *)
(* heap [board, pos] it leaves together with its value.                    *)
(***************************************************************************)
\* the scan for the General of a colour: the _pos of the last one found
find_general(b, ps, color) ==
    IF \E k \in 1..90 : /\ TypeOf(At(b, AllCoords[k])) = "General"
                        /\ get_color(At(b, AllCoords[k])) = color
    THEN ps[At(b, AllCoords[CHOOSE k \in 1..90 :
                    /\ TypeOf(At(b, AllCoords[k])) = "General"
                    /\ get_color(At(b, AllCoords[k])) = color
                    /\ \A n \in 1..90 :
                          (/\ TypeOf(At(b, AllCoords[n])) = "General"
                           /\ get_color(At(b, AllCoords[n])) = color) => n <= k])]
    ELSE None

\* the piece objects on a list of squares
pieces_on(b, squares) == [k \in 1..Len(squares) |-> At(b, squares[k])]

\* a threat_list that passes over the Horses
threat_squares_but_horses(b, ps, color, gen_pos_alg) ==
    LET Threat(rc) == /\ TypeOf(At(b, rc)) \notin {"NoPiece", "Horse"}
                      /\ get_color(At(b, rc)) # color
                      /\ check_move(b, ps, ps[At(b, rc)], gen_pos_alg).is_list
    IN SelectSeq(AllCoords, Threat)

\* the squares of the pieces threat_list appends: the enemy pieces with a
\* validated move onto gen_pos_alg
threat_squares(b, ps, color, gen_pos_alg) ==
    LET Threat(rc) == /\ TypeOf(At(b, rc)) # "NoPiece"
                      /\ get_color(At(b, rc)) # color
                      /\ check_move(b, ps, ps[At(b, rc)], gen_pos_alg).is_list
    IN SelectSeq(AllCoords, Threat)

\* JanggiGame.threat_list: the list of threatening piece objects
threat_list(b, ps, team) ==
    pieces_on(b, threat_squares(b, ps, shorten_color(team),
                                find_general(b, ps, shorten_color(team))))

\* an is_in_check that never sees a threat
is_in_check_blind(b, ps, team) == FALSE

\* JanggiGame.is_in_check
is_in_check(b, ps, team) == Len(threat_list(b, ps, team)) > 0

\* a trial of general_can_escape that does not put the board back
escape_trial_no_restore(st, color_name, gen, gen_pos_alg, move) ==
    LET gen_coords == translate_to_list_coords(gen_pos_alg)
        coords == translate_to_list_coords(move)
        b2 == Put(Put(st.board, coords, gen), gen_coords, NoPiece)
        ps1 == [st.pos EXCEPT ![gen] = move]
    IN [board |-> b2, pos |-> ps1,
        safe_moves |-> IF ~is_in_check(b2, ps1, color_name)
                       THEN st.safe_moves + 1 ELSE st.safe_moves]

\* One trial of general_can_escape (lines 395-423) on the heap and the
\* count st = [board, pos, safe_moves]: the General gen is put on the
\* square move, is_in_check is asked, and the board is put back.
escape_trial(st, color_name, gen, gen_pos_alg, move) ==
    LET gen_coords == translate_to_list_coords(gen_pos_alg)
        coords == translate_to_list_coords(move)
        end_piece == At(st.board, coords)
        b2 == Put(Put(st.board, coords, gen), gen_coords, NoPiece)
        ps1 == [st.pos EXCEPT ![gen] = move]
    IN [board |-> Put(Put(b2, coords, end_piece), gen_coords, gen),
        pos |-> [ps1 EXCEPT ![gen] = gen_pos_alg],
        safe_moves |-> IF ~is_in_check(b2, ps1, color_name)
                       THEN st.safe_moves + 1 ELSE st.safe_moves]

\* the loop over gen_valid_moves[k..]
RECURSIVE escape_loop(_, _, _, _, _, _)
escape_loop(st, color_name, gen, gen_pos_alg, gen_valid_moves, k) ==
    IF k > Len(gen_valid_moves) THEN st
    ELSE escape_loop(escape_trial(st, color_name, gen, gen_pos_alg, gen_valid_moves[k][1]),
                     color_name, gen, gen_pos_alg, gen_valid_moves, k + 1)

\* gen_valid_moves: the Validator-legal one-step moves of the General gen
gen_valid_moves_of(b, ps, gen_pos_alg, gen) ==
    LET Valid(mv) == check_move(b, ps, gen_pos_alg, mv[1]).is_list
    IN SelectSeq(start_piece_possible_moves(gen, ps[gen]), Valid)

\* a loop of trials that wants two safe moves
trials_result_two(st) == [value |-> st.safe_moves > 1, board |-> st.board, pos |-> st.pos]

\* the value returned after a loop of trials, and the heap it leaves
trials_result(st) == [value |-> st.safe_moves > 0, board |-> st.board, pos |-> st.pos]

\* general_can_escape once gen is read (lines 375-429)
escape_of(b, ps, color_name, gen_pos_alg, gen) ==
    trials_result(escape_loop([board |-> b, pos |-> ps, safe_moves |-> 0], color_name, gen,
                              gen_pos_alg, gen_valid_moves_of(b, ps, gen_pos_alg, gen), 1))

\* general_can_escape once the General is found (lines 366-429)
escape_from(b, ps, color_name, gen_pos_alg) ==
    escape_of(b, ps, color_name, gen_pos_alg, At(b, translate_to_list_coords(gen_pos_alg)))

\* JanggiGame.general_can_escape: the value returned and the heap left
general_can_escape(b, ps, color_name) ==
    escape_from(b, ps, color_name, find_general(b, ps, shorten_color(color_name)))

\* current_move of general_can_capture for one piece, with start_pos
\* inserted in front when it is a list
capture_move(start_pos, current_move) ==
    IF current_move.is_list THEN List(<<start_pos>> \o current_move.path) ELSE current_move

\* the paths of the entries of moves that are lists
lists_of(moves) ==
    LET IsList(r) == r.is_list
    IN [k \in 1..Len(SelectSeq(moves, IsList)) |-> SelectSeq(moves, IsList)[k].path]

\* ways_to_capture: for every friendly piece with a validated move onto
\* enemy_pos, the path with the piece's own square inserted in front
ways_to_capture_of(b, ps, short_color, enemy_pos) ==
    lists_of([k \in 1..90 |->
                IF get_color(At(b, AllCoords[k])) = short_color
                THEN capture_move(ps[At(b, AllCoords[k])],
                                  check_move(b, ps, ps[At(b, AllCoords[k])], enemy_pos))
                ELSE Str("")])

\* One trial of general_can_capture (lines 490-521) along way (start square
\* first, the threat's square last) on st = [board, pos, safe_moves].
capture_trial(st, color, way) ==
    LET start_coords_alg == way[1]
        start_coords == translate_to_list_coords(start_coords_alg)
        start_piece == At(st.board, start_coords)
        end_coords_alg == Last(way)
        end_coords == translate_to_list_coords(end_coords_alg)
        end_piece == At(st.board, end_coords)
        b2 == Put(Put(st.board, end_coords, start_piece), start_coords, NoPiece)
        ps1 == [st.pos EXCEPT ![start_piece] = end_coords_alg]
    IN [board |-> Put(Put(b2, end_coords, end_piece), start_coords, start_piece),
        pos |-> [[ps1 EXCEPT ![end_piece] = end_coords_alg]
                    EXCEPT ![start_piece] = start_coords_alg],
        safe_moves |-> IF ~is_in_check(b2, ps1, color)
                       THEN st.safe_moves + 1 ELSE st.safe_moves]

\* the loop over ways_to_capture[k..]
RECURSIVE capture_loop(_, _, _, _)
capture_loop(st, color, ways_to_capture, k) ==
    IF k > Len(ways_to_capture) THEN st
    ELSE capture_loop(capture_trial(st, color, ways_to_capture[k]), color,
                      ways_to_capture, k + 1)

\* general_can_capture once ways_to_capture is computed (lines 480-527)
capture_by(b, ps, color, ways_to_capture) ==
    IF Len(ways_to_capture) = 0 THEN [value |-> FALSE, board |-> b, pos |-> ps]
    ELSE trials_result(capture_loop([board |-> b, pos |-> ps, safe_moves |-> 0], color,
                                    ways_to_capture, 1))

\* a general_can_capture that goes for the first threat however many there
\* are
capture_of_first_threat(b, ps, color, threats) ==
    capture_by(b, ps, color, ways_to_capture_of(b, ps, shorten_color(color), ps[threats[1]]))

\* general_can_capture once threats is computed (lines 444-527); threats[0]
\* of an empty list raises IndexError: the call is made only with at least
\* one threat
capture_of(b, ps, color, threats) ==
    IF Len(threats) > 1 THEN [value |-> FALSE, board |-> b, pos |-> ps]
    ELSE capture_by(b, ps, color,
                    ways_to_capture_of(b, ps, shorten_color(color), ps[threats[1]]))

\* JanggiGame.general_can_capture: the value returned and the heap left
general_can_capture(b, ps, color) == capture_of(b, ps, color, threat_list(b, ps, color))

\* an entry of blocked_positions: a whole path (appended for a one-step
\* capture path) or one square of a path
PathEntry(path) == [is_path |-> TRUE, path |-> path, square |-> None]

SquareEntry(q) == [is_path |-> FALSE, path |-> << >>, square |-> q]

\* blocked_positions[pos] in all_capture_paths[path]: a list is never
\* equal to a square of a path
entry_in_path(entry, path) == ~entry.is_path /\ InList(entry.square, path)

\* the entries appended for one square of a capture path: one for every
\* friendly piece other than the General with a validated move onto it
block_entries_at(b, ps, short_color, q) ==
    LET Can(rc) == /\ get_color(At(b, rc)) = short_color
                   /\ TypeOf(At(b, rc)) # "General"
                   /\ check_move(b, ps, ps[At(b, rc)], q).is_list
    IN [k \in 1..Len(SelectSeq(AllCoords, Can)) |-> SquareEntry(q)]

\* the entries appended for the squares k.. of one capture path
RECURSIVE block_entries_from(_, _, _, _, _)
block_entries_from(b, ps, short_color, current_path, k) ==
    IF k > Len(current_path) THEN << >>
    ELSE block_entries_at(b, ps, short_color, current_path[k])
           \o block_entries_from(b, ps, short_color, current_path, k + 1)

\* blocked_positions after the paths k.. have been evaluated
RECURSIVE blocked_positions_from(_, _, _, _, _)
blocked_positions_from(b, ps, short_color, all_capture_paths, k) ==
    IF k > Len(all_capture_paths) THEN << >>
    ELSE (IF Len(all_capture_paths[k]) = 1
          THEN <<PathEntry(all_capture_paths[k])>>
          ELSE block_entries_from(b, ps, short_color, all_capture_paths[k], 1))
           \o blocked_positions_from(b, ps, short_color, all_capture_paths, k + 1)

\* the inner loop of the final sweep, over blocked_positions[k..], for one
\* capture path: unblocked_capture_paths afterwards
RECURSIVE sweep_path(_, _, _, _, _)
sweep_path(blocked_positions, path, k, block_found, unblocked) ==
    IF k > Len(blocked_positions) THEN unblocked
    ELSE sweep_path(blocked_positions, path, k + 1,
                    block_found \/ entry_in_path(blocked_positions[k], path),
                    IF /\ ~(block_found \/ entry_in_path(blocked_positions[k], path))
                       /\ ~InList(path, unblocked)
                    THEN Append(unblocked, path) ELSE unblocked)

\* the outer loop of the final sweep, over all_capture_paths[k..]
RECURSIVE sweep_all(_, _, _, _)
sweep_all(blocked_positions, all_capture_paths, k, unblocked) ==
    IF k > Len(all_capture_paths) THEN unblocked
    ELSE sweep_all(blocked_positions, all_capture_paths, k + 1,
                   sweep_path(blocked_positions, all_capture_paths[k], 1, FALSE, unblocked))

\* the capture path of every threat, in threat_list order
capture_paths(b, ps, threats, gen_pos_alg) ==
    [k \in 1..Len(threats) |-> check_move(b, ps, ps[threats[k]], gen_pos_alg).path]

\* all_capture_paths of general_can_block
all_capture_paths_of(b, ps, color) ==
    capture_paths(b, ps, threat_list(b, ps, color),
                  find_general(b, ps, shorten_color(color)))

\* a general_can_block that is content with any blocked position
block_sweep_any_entry(blocked_positions, all_capture_paths) == Len(blocked_positions) > 0

\* general_can_block once blocked_positions is computed (lines 606-633)
block_sweep(blocked_positions, all_capture_paths) ==
    LET IsOneStep(path) == Len(path) = 1
    IN IF Len(blocked_positions) = 0 THEN FALSE
       ELSE Len(sweep_all(blocked_positions, all_capture_paths, 1,
                          SelectSeq(all_capture_paths, IsOneStep))) = 0

\* general_can_block once all_capture_paths is computed (lines 573-633)
block_of(b, ps, short_color, all_capture_paths) ==
    block_sweep(blocked_positions_from(b, ps, short_color, all_capture_paths, 1),
                all_capture_paths)

\* JanggiGame.general_can_block (it changes nothing on the heap)
general_can_block(b, ps, color) ==
    block_of(b, ps, shorten_color(color), all_capture_paths_of(b, ps, color))

\* a checkmate that never asks whether the check can be blocked
checkmate_capture_unblocked(cap, color) ==
    [value |-> ~cap.value, board |-> cap.board, pos |-> cap.pos]

\* checkmate after general_can_capture returned cap (lines 655-662)
checkmate_capture(cap, color) ==
    IF cap.value THEN [value |-> FALSE, board |-> cap.board, pos |-> cap.pos]
    ELSE [value |-> ~general_can_block(cap.board, cap.pos, color),
          board |-> cap.board, pos |-> cap.pos]

\* checkmate after general_can_escape returned esc (lines 651-662)
checkmate_escape(esc, color) ==
    IF esc.value THEN [value |-> FALSE, board |-> esc.board, pos |-> esc.pos]
    ELSE checkmate_capture(general_can_capture(esc.board, esc.pos, color), color)

\* JanggiGame.checkmate: the value returned and the heap left
checkmate(b, ps, color) ==
    IF is_in_check(b, ps, color)
    THEN checkmate_escape(general_can_escape(b, ps, color), color)
    ELSE [value |-> FALSE, board |-> b, pos |-> ps]

(***************************************************************************)
(* make_move.                                                              *)
(***************************************************************************)
\* a change_turn that leaves _turn as it is
change_turn_stay(t) == t

\* JanggiGame.change_turn, as the new value of _turn
change_turn(t) == IF t = "R" THEN "B" ELSE "R"

\* a returned message; args are the values formatted into it
Msg(text, args) == [text |-> text, args |-> args]

\* a set_pos that leaves _pos as it is
set_pos_forget(ps, piece, p) == ps

\* piece.set_pos(p); the _pos of a NoPiece object is not modelled
set_pos(ps, piece, p) == IF piece = NoPiece THEN ps ELSE [ps EXCEPT ![piece] = p]

\* a relocation that leaves the captured piece's _pos as it was
relocate_keeps_captured(st, p1, p2) ==
    LET start_pos == translate_to_list_coords(p1)
        end_pos == translate_to_list_coords(p2)
        start_piece == At(st.board, start_pos)
    IN [board |-> Put(Put(st.board, end_pos, start_piece), start_pos, NoPiece),
        pos |-> set_pos(st.pos, start_piece, p2)]

\* make_move relocating the piece: the heap after lines 745-754
relocate(st, p1, p2) ==
    LET start_pos == translate_to_list_coords(p1)
        end_pos == translate_to_list_coords(p2)
        start_piece == At(st.board, start_pos)
        end_piece == At(st.board, end_pos)
    IN [board |-> Put(Put(st.board, end_pos, start_piece), start_pos, NoPiece),
        pos |-> IF TypeOf(end_piece) # "NoPiece"
                THEN set_pos(set_pos(st.pos, start_piece, p2), end_piece, CAPTURED)
                ELSE set_pos(st.pos, start_piece, p2)]

\* a make_move that returns from a self-check without undoing the relocation
undo_relocate_none(st, p1, p2, start_piece, start_piece_prev_pos, end_piece, end_piece_prev_pos) == st

\* make_move undoing the relocation: the heap after lines 760-765, from
\* the heap st after the relocation
undo_relocate(st, p1, p2, start_piece, start_piece_prev_pos, end_piece, end_piece_prev_pos) ==
    LET start_pos == translate_to_list_coords(p1)
        end_pos == translate_to_list_coords(p2)
    IN [board |-> Put(Put(st.board, start_pos, start_piece), end_pos, end_piece),
        pos |-> set_pos(set_pos(st.pos, start_piece, start_piece_prev_pos),
                        end_piece, end_piece_prev_pos)]

\* an end of make_move that names the mated side the winner
conclude_move_loser_wins(mate, t, gs, p1, p2) ==
    LET op_color == IF t = "R" THEN "blue" ELSE IF t = "B" THEN "red" ELSE ""
    IN IF mate.value
       THEN [board |-> mate.board, pos |-> mate.pos, turn |-> t,
             game_state |-> IF op_color = "red" THEN "RED_WON" ELSE "BLUE_WON",
             result |-> Msg("Game over!", << >>)]
       ELSE [board |-> mate.board, pos |-> mate.pos, turn |-> change_turn(t),
             game_state |-> gs,
             result |-> Msg("Move from {pos1} to {pos2} completed.", <<p1, p2>>)]

\* the end of make_move (lines 770-788) on the heap mate checkmate() left
conclude_move(mate, t, gs, p1, p2) ==
    LET op_color == IF t = "R" THEN "blue" ELSE IF t = "B" THEN "red" ELSE ""
    IN IF mate.value
       THEN [board |-> mate.board, pos |-> mate.pos, turn |-> t,
             game_state |-> IF op_color = "red" THEN "BLUE_WON" ELSE "RED_WON",
             result |-> Msg("Game over!", << >>)]
       ELSE [board |-> mate.board, pos |-> mate.pos, turn |-> change_turn(t),
             game_state |-> gs,
             result |-> Msg("Move from {pos1} to {pos2} completed.", <<p1, p2>>)]

\* make_move after the relocation (lines 756-788), moved being the heap the
\* relocation left
after_relocate(b, ps, t, gs, p1, p2, moved) ==
    LET start_piece == At(b, translate_to_list_coords(p1))
        end_piece == At(b, translate_to_list_coords(p2))
        color == IF t = "R" THEN "red" ELSE IF t = "B" THEN "blue" ELSE ""
        op_color == IF t = "R" THEN "blue" ELSE IF t = "B" THEN "red" ELSE ""
        start_piece_prev_pos == ps[start_piece]
        end_piece_prev_pos == IF end_piece = NoPiece THEN None ELSE ps[end_piece]
    IN IF is_in_check(moved.board, moved.pos, color)
       THEN [board |-> undo_relocate(moved, p1, p2, start_piece, start_piece_prev_pos,
                                     end_piece, end_piece_prev_pos).board,
             pos |-> undo_relocate(moved, p1, p2, start_piece, start_piece_prev_pos,
                                   end_piece, end_piece_prev_pos).pos,
             turn |-> t, game_state |-> gs,
             result |-> Msg("You can't make a move that puts/leaves your General in check.",
                            << >>)]
       ELSE conclude_move(checkmate(moved.board, moved.pos, op_color), t, gs, p1, p2)

\* the rest of make_move once check_move has validated the move and the
\* piece is of the side on turn (lines 740-788)
finish_move(b, ps, t, gs, p1, p2) ==
    after_relocate(b, ps, t, gs, p1, p2, relocate([board |-> b, pos |-> ps], p1, p2))

\* a pass that is accepted without looking at check
pass_turn_unchecked(b, ps, t, gs) ==
    [board |-> b, pos |-> ps, turn |-> change_turn(t), game_state |-> gs,
     result |-> Msg("{prev_turn} has passed on their turn.",
                    <<IF t = "B" THEN "Blue" ELSE "Red">>)]

\* a pass that is accepted without the turn going to the other side
pass_turn_keeps_turn(b, ps, t, gs) ==
    LET color == IF t = "R" THEN "red" ELSE IF t = "B" THEN "blue" ELSE ""
    IN IF ~is_in_check(b, ps, color)
       THEN [board |-> b, pos |-> ps, turn |-> t, game_state |-> gs,
             result |-> Msg("{prev_turn} has passed on their turn.",
                            <<IF t = "B" THEN "Blue" ELSE "Red">>)]
       ELSE [board |-> b, pos |-> ps, turn |-> t, game_state |-> gs,
             result |-> Msg("You may not pass when the General is in check.", << >>)]

\* make_move on a request check_move answered "PASS" (lines 712-733)
pass_turn(b, ps, t, gs) ==
    LET color == IF t = "R" THEN "red" ELSE IF t = "B" THEN "blue" ELSE ""
    IN IF ~is_in_check(b, ps, color)
       THEN [board |-> b, pos |-> ps, turn |-> change_turn(t), game_state |-> gs,
             result |-> Msg("{prev_turn} has passed on their turn.",
                            <<IF t = "B" THEN "Blue" ELSE "Red">>)]
       ELSE [board |-> b, pos |-> ps, turn |-> t, game_state |-> gs,
             result |-> Msg("You may not pass when the General is in check.", << >>)]

\* a make_move that looks at the side of the piece before the answer of
\* check_move
after_check_move_side_first(b, ps, t, gs, p1, p2, check_move_result) ==
    IF p1 # p2 /\ get_color(At(b, translate_to_list_coords(p1))) # t
    THEN [board |-> b, pos |-> ps, turn |-> t, game_state |-> gs,
          result |-> Msg("You may not move another team's piece.", << >>)]
    ELSE IF ~check_move_result.is_list /\ check_move_result.msg # "PASS"
    THEN [board |-> b, pos |-> ps, turn |-> t, game_state |-> gs,
          result |-> Msg(check_move_result.msg, << >>)]
    ELSE IF ~check_move_result.is_list THEN pass_turn(b, ps, t, gs)
    ELSE finish_move(b, ps, t, gs, p1, p2)

\* a make_move that moves a piece whichever side is on turn
after_check_move_any_side(b, ps, t, gs, p1, p2, check_move_result) ==
    IF ~check_move_result.is_list /\ check_move_result.msg # "PASS"
    THEN [board |-> b, pos |-> ps, turn |-> t, game_state |-> gs,
          result |-> Msg(check_move_result.msg, << >>)]
    ELSE IF ~check_move_result.is_list THEN pass_turn(b, ps, t, gs)
    ELSE finish_move(b, ps, t, gs, p1, p2)

\* make_move once check_move has answered (lines 705-788)
after_check_move(b, ps, t, gs, p1, p2, check_move_result) ==
    IF ~check_move_result.is_list /\ check_move_result.msg # "PASS"
    THEN [board |-> b, pos |-> ps, turn |-> t, game_state |-> gs,
          result |-> Msg(check_move_result.msg, << >>)]
    ELSE IF ~check_move_result.is_list THEN pass_turn(b, ps, t, gs)
    ELSE IF get_color(At(b, translate_to_list_coords(p1))) # t
    THEN [board |-> b, pos |-> ps, turn |-> t, game_state |-> gs,
          result |-> Msg("You may not move another team's piece.", << >>)]
    ELSE finish_move(b, ps, t, gs, p1, p2)

\* make_move after its game-over test (lines 684-788); reading start_piece
\* or end_piece off the board raises IndexError and make_move ends there
play_move(b, ps, t, gs, p1, p2) ==
    IF raises_IndexError(translate_to_list_coords(p1)) \/ raises_IndexError(translate_to_list_coords(p2))
    THEN [board |-> b, pos |-> ps, turn |-> t, game_state |-> gs,
          result |-> Msg("IndexError: list index out of range", << >>)]
    ELSE after_check_move(b, ps, t, gs, p1, p2, check_move(b, ps, p1, p2))

\* make_move without its game-over test
make_move_without_guard(b, ps, t, gs, p1, p2) == play_move(b, ps, t, gs, p1, p2)

\* JanggiGame.make_move: the state it leaves and the message it returns
make_move(b, ps, t, gs, p1, p2) ==
    IF gs # "UNFINISHED"
    THEN [board |-> b, pos |-> ps, turn |-> t, game_state |-> gs,
          result |-> Msg("Game over!", << >>)]
    ELSE play_move(b, ps, t, gs, p1, p2)

(***************************************************************************)
(* The game as a state machine: the state after JanggiGame() and one       *)
(* action, a call of make_move.  The message a call returns is the result  *)
(* field of make_move.                                                     *)
(***************************************************************************)
Sq(letter, number) == <<letter, number>>

\* The requests of Blue's attack.  They hold a line of play that ends in
\* checkmate (Blue's c-file Soldier walks to c2 while Red's General steps
\* to d2 and Red's own Guard and Horse fill e2 and d3), side steps of that
\* Soldier, the e-file Soldier exchange, a Cannon request, passes on an
\* occupied and on an empty square, and requests validation rejects.
BlueAttack ==
    { <<Sq(Ord.c, 7), Sq(Ord.c, 6)>>, <<Sq(Ord.c, 6), Sq(Ord.c, 5)>>,
      <<Sq(Ord.c, 5), Sq(Ord.c, 4)>>, <<Sq(Ord.c, 4), Sq(Ord.c, 3)>>,
      <<Sq(Ord.c, 3), Sq(Ord.c, 2)>>, <<Sq(Ord.c, 3), Sq(Ord.d, 3)>>,
      <<Sq(Ord.c, 2), Sq(Ord.d, 2)>>, <<Sq(Ord.c, 6), Sq(Ord.b, 6)>>,
      <<Sq(Ord.e, 7), Sq(Ord.e, 6)>>, <<Sq(Ord.e, 6), Sq(Ord.e, 5)>>,
      <<Sq(Ord.e, 2), Sq(Ord.d, 2)>>, <<Sq(Ord.f, 1), Sq(Ord.e, 2)>>,
      <<Sq(Ord.c, 1), Sq(Ord.d, 3)>>, <<Sq(Ord.e, 4), Sq(Ord.e, 5)>>,
      <<Sq(Ord.b, 3), Sq(Ord.b, 8)>>,
      <<Sq(Ord.a, 1), Sq(Ord.a, 1)>>, <<Sq(Ord.e, 5), Sq(Ord.e, 5)>>,
      <<Sq(Ord.d, 1), Sq(Ord.d, 10)>>, <<Sq(Ord.a, 5), Sq(Ord.a, 6)>>,
      <<Sq(Ord.a, 1), Sq(Ord.a, 5)>> }

\* the square facing q across the middle of the board
Mirror(q) == <<q[1], 11 - q[2]>>

\* the requests of Red's attack: the same line played from the other side
RedAttack == {<<Mirror(rq[1]), Mirror(rq[2])>> : rq \in BlueAttack}

Requests(side) == IF side = "B" THEN BlueAttack ELSE RedAttack

\* a board set up with Blue on rows 1-4 and Red on rows 10-7
InitBoard_upside_down ==
    [row \in Rows |-> [col \in Cols |->
        IF \E x \in Pieces : InitialPieces[x][1] = 9 - row /\ InitialPieces[x][2] = col
        THEN CHOOSE x \in Pieces : InitialPieces[x][1] = 9 - row /\ InitialPieces[x][2] = col
        ELSE NoPiece]]

\* JanggiGame.__init__: the board after the assignments of the pieces
InitBoard ==
    [row \in Rows |-> [col \in Cols |->
        IF \E x \in Pieces : InitialPieces[x][1] = row /\ InitialPieces[x][2] = col
        THEN CHOOSE x \in Pieces :
                /\ InitialPieces[x][1] = row /\ InitialPieces[x][2] = col
                /\ \A y \in Pieces :
                      InitialPieces[y][1] = row /\ InitialPieces[y][2] = col => y <= x
        ELSE NoPiece]]

\* the _pos each piece object is constructed with
InitPos == [x \in Pieces |-> InitialPieces[x][5]]

\* no method of a piece or of the translator is being called
NoCall == <<"none">>

Init ==
    /\ board = InitBoard
    /\ pos = InitPos
    /\ game_state = "UNFINISHED"
    /\ turn = "B"
    /\ attacker \in {"B", "R"}
    /\ call = NoCall
    /\ ret = << >>

\* a call make_move(p1, p2)
MakeMove(p1, p2) ==
    \E r \in {make_move(board, pos, turn, game_state, p1, p2)} :
        /\ board' = r.board
        /\ pos' = r.pos
        /\ turn' = r.turn
        /\ game_state' = r.game_state
        /\ UNCHANGED <<attacker, call, ret>>

Next == \E rq \in Requests(attacker) : MakeMove(rq[1], rq[2])

Spec == Init /\ [][Next]_vars

\* The requests of a skirmish on Blue's left wing, made to bring the pieces
\* into the positions validation has to tell apart: Blue's Soldiers close
\* up on the b-file (a Soldier beside a Soldier, a screen between the
\* Cannons of the b-file), the e-file Soldiers meet, Red's Chariot goes by
\* a2 and d2 to the corner d3 of its Palace, along the diagonal through
\* the General's square, and up the d-file to the corner d10 of Blue's
\* Palace, Red's Guard steps from the corner f1 to f2, Red's Horse and
\* Elephant come out to e5 and d4 beside Blue's e-file Soldier, and either
\* side may pass.
BlueSkirmish ==
    { <<Sq(Ord.a, 7), Sq(Ord.b, 7)>>, <<Sq(Ord.c, 7), Sq(Ord.b, 7)>>,
      <<Sq(Ord.e, 7), Sq(Ord.e, 6)>>, <<Sq(Ord.e, 6), Sq(Ord.e, 5)>>,
      <<Sq(Ord.e, 4), Sq(Ord.e, 5)>>, <<Sq(Ord.b, 3), Sq(Ord.b, 8)>>,
      <<Sq(Ord.a, 1), Sq(Ord.a, 2)>>, <<Sq(Ord.a, 2), Sq(Ord.d, 2)>>,
      <<Sq(Ord.d, 2), Sq(Ord.d, 3)>>, <<Sq(Ord.d, 3), Sq(Ord.f, 1)>>,
      <<Sq(Ord.d, 3), Sq(Ord.d, 10)>>, <<Sq(Ord.d, 10), Sq(Ord.f, 8)>>,
      <<Sq(Ord.f, 1), Sq(Ord.f, 2)>>, <<Sq(Ord.c, 1), Sq(Ord.d, 3)>>,
      <<Sq(Ord.d, 3), Sq(Ord.e, 5)>>, <<Sq(Ord.b, 1), Sq(Ord.d, 4)>>,
      <<Sq(Ord.a, 5), Sq(Ord.a, 5)>> }

\* the same skirmish played from the other side
RedSkirmish == {<<Mirror(rq[1]), Mirror(rq[2])>> : rq \in BlueSkirmish}

Skirmish(side) == IF side = "B" THEN BlueSkirmish ELSE RedSkirmish

SkirmishNext == \E rq \in Skirmish(attacker) : MakeMove(rq[1], rq[2])

SkirmishSpec == Init /\ [][SkirmishNext]_vars

\* Requests as a caller of make_move may type them, off the board too: a
\* row 0 or 11, a column before a or after i.  Blue's Chariots are asked to
\* step from a10 to a9 and from i10 to i9 under the names a0 and `10 of
\* their squares, a9 and a11 are asked to move, a pass is asked on a0, and
\* the Soldiers of the e-file, of a4 and of i4 step forward.
BlueEntries ==
    { <<Sq(Ord.a, 0), Sq(Ord.a, 9)>>, <<Sq(Ord.a, 10), Sq(Ord.a, 9)>>,
      <<Sq(Ord.a, 9), Sq(Ord.a, 0)>>, <<Sq(Ord.a, 0), Sq(Ord.a, 0)>>,
      <<Sq(Ord.a, 11), Sq(Ord.a, 10)>>, <<Sq(Ord.a, 9), Sq(Ord.a, 11)>>,
      <<Sq(Ord.i + 1, 1), Sq(Ord.i + 1, 2)>>, <<Sq(Ord.i, 7), Sq(Ord.i + 1, 7)>>,
      <<Sq(Ord.a - 1, 10), Sq(Ord.a - 1, 9)>>, <<Sq(Ord.a - 1, 10), Sq(Ord.i, 9)>>,
      <<Sq(Ord.e, 7), Sq(Ord.e, 6)>>, <<Sq(Ord.e, 6), Sq(Ord.e, 5)>>,
      <<Sq(Ord.e, 4), Sq(Ord.e, 5)>>, <<Sq(Ord.a, 4), Sq(Ord.a, 5)>>,
      <<Sq(Ord.i, 4), Sq(Ord.i, 5)>>, <<Sq(Ord.e, 5), Sq(Ord.e, 5)>> }

\* the same entries for the other side of the board
RedEntries == {<<Mirror(rq[1]), Mirror(rq[2])>> : rq \in BlueEntries}

Entries(side) == IF side = "B" THEN BlueEntries ELSE RedEntries

EntriesNext == \E rq \in Entries(attacker) : MakeMove(rq[1], rq[2])

EntriesSpec == Init /\ [][EntriesNext]_vars

\* The requests of Red's siege of Blue's Palace, made to bring about the
\* checks the analysis has to tell apart.  Red's Horse goes by d3 and e5 to
\* d7 and on to c9, the Cannon of b3 jumps it to e3, the Soldier of e4
\* steps aside, the Chariot of a1 goes by a2 and d2 up the d-file to d9 and
\* then beside the General; Blue's General steps back to e10, Blue's Horse,
\* Guard and e-file Soldier have the moves that stand in the way of a
\* check, and either side may pass.
RedSiege ==
    { <<Sq(Ord.c, 1), Sq(Ord.d, 3)>>, <<Sq(Ord.b, 3), Sq(Ord.e, 3)>>,
      <<Sq(Ord.d, 3), Sq(Ord.e, 5)>>, <<Sq(Ord.e, 4), Sq(Ord.f, 4)>>,
      <<Sq(Ord.e, 5), Sq(Ord.d, 7)>>, <<Sq(Ord.d, 7), Sq(Ord.c, 9)>>,
      <<Sq(Ord.a, 1), Sq(Ord.a, 2)>>, <<Sq(Ord.a, 2), Sq(Ord.d, 2)>>,
      <<Sq(Ord.d, 2), Sq(Ord.d, 9)>>, <<Sq(Ord.d, 9), Sq(Ord.e, 9)>>,
      <<Sq(Ord.e, 9), Sq(Ord.e, 10)>>, <<Sq(Ord.c, 10), Sq(Ord.d, 8)>>,
      <<Sq(Ord.d, 10), Sq(Ord.d, 9)>>, <<Sq(Ord.e, 7), Sq(Ord.e, 6)>>,
      <<Sq(Ord.a, 5), Sq(Ord.a, 5)>> }

\* the same siege laid by Blue to Red's Palace
BlueSiege == {<<Mirror(rq[1]), Mirror(rq[2])>> : rq \in RedSiege}

Siege(side) == IF side = "B" THEN BlueSiege ELSE RedSiege

SiegeNext == \E rq \in Siege(attacker) : MakeMove(rq[1], rq[2])

SiegeSpec == Init /\ [][SiegeNext]_vars

\* The requests of Blue's ambush of Red's General behind a screen of its
\* own.  Red's General steps to d2 and is shut in by the Guard of f1 on e2,
\* the Horse of c1 on d3 and the Guard of d1; the Soldiers of c4 and e4
\* step away from the d-file and the Chariot of a1 goes by a2 to b2, in the
\* way of the Elephant of b1.  Blue's General steps to e8, and the Cannon
\* of h8 jumps it to d8, behind Red's Horse on the d-file.  The Horse may
\* leave d3 for e5, the General on d2 may be asked to leave its Palace for
\* c2, and either side may pass.
BlueAmbush ==
    { <<Sq(Ord.e, 9), Sq(Ord.e, 8)>>, <<Sq(Ord.h, 8), Sq(Ord.d, 8)>>,
      <<Sq(Ord.e, 2), Sq(Ord.d, 2)>>, <<Sq(Ord.f, 1), Sq(Ord.e, 2)>>,
      <<Sq(Ord.c, 1), Sq(Ord.d, 3)>>, <<Sq(Ord.c, 4), Sq(Ord.b, 4)>>,
      <<Sq(Ord.e, 4), Sq(Ord.f, 4)>>, <<Sq(Ord.a, 1), Sq(Ord.a, 2)>>,
      <<Sq(Ord.a, 2), Sq(Ord.b, 2)>>, <<Sq(Ord.d, 3), Sq(Ord.e, 5)>>,
      <<Sq(Ord.d, 2), Sq(Ord.c, 2)>>, <<Sq(Ord.a, 5), Sq(Ord.a, 5)>> }

\* the same ambush laid by Red for Blue's General
RedAmbush == {<<Mirror(rq[1]), Mirror(rq[2])>> : rq \in BlueAmbush}

Ambush(side) == IF side = "B" THEN BlueAmbush ELSE RedAmbush

AmbushNext == \E rq \in Ambush(attacker) : MakeMove(rq[1], rq[2])

AmbushSpec == Init /\ [][AmbushNext]_vars

(***************************************************************************)
(* Calls of the methods that read no game: possible_moves of a piece       *)
(* constructed on any square, and the two translations.  call is the       *)
(* method and its argument, ret the values returned so far; a translation  *)
(* is also applied to the value the other translation returned.            *)
(***************************************************************************)
\* A notation is a str in the code.  In the game above it stands as the
\* pair of its first character and the number its other characters
\* spell; here it is the string itself, a sequence of character codes.
\* int(s) for a str of decimal digits with an optional minus sign
RECURSIVE int_of(_)
int_of(s) ==
    IF s[1] = 45 THEN 0 - int_of(Tail(s))
    ELSE IF Len(s) = 1 THEN s[1] - 48
    ELSE 10 * int_of(SubSeq(s, 1, Len(s) - 1)) + (s[Len(s)] - 48)

\* str(n) for an int n
RECURSIVE str_of(_)
str_of(n) ==
    IF n < 0 THEN <<45>> \o str_of(0 - n)
    ELSE IF n < 10 THEN <<n + 48>>
    ELSE str_of(n \div 10) \o <<(n % 10) + 48>>

\* translate_to_list_coords on the str s: pos[0] and int(pos[1:])
translate_str_to_list_coords(s) == translate_to_list_coords(<<s[1], int_of(Tail(s))>>)

\* translate_to_alg_coords returning a str: col_str + row_str
alg_str(q) == <<q[1]>> \o str_of(q[2])

translate_to_alg_str(lp) == alg_str(translate_to_alg_coords(lp))

\* notation with a column letter from the one before a to the one after i
\* and a row number from 0 to 11
Typed == {alg_str(<<letter, number>>) : letter \in (Ord.a - 1)..(Ord.i + 1), number \in 0..11}

Calls ==
    {<<"possible_moves", class, color, p>> : class \in Classes, color \in {"R", "B"}, p \in Squares}
        \cup {<<"translate_to_list_coords", p>> : p \in Typed}
        \cup {<<"translate_to_alg_coords", <<row, col>> >> : row \in Rows, col \in Cols}

CallsInit ==
    /\ board = InitBoard
    /\ pos = InitPos
    /\ game_state = "UNFINISHED"
    /\ turn = "B"
    /\ attacker = "B"
    /\ call \in Calls
    /\ ret = << >>

\* piece.possible_moves() for a piece of call's class and colour on call's square
PossibleMoves ==
    /\ call[1] = "possible_moves"
    /\ ret = << >>
    /\ ret' = <<possible_moves(call[2], call[3], call[4])>>
    /\ UNCHANGED <<board, pos, turn, game_state, attacker, call>>

\* translate_to_list_coords of call's notation, or of the notation returned
TranslateToList ==
    /\ \/ /\ call[1] = "translate_to_list_coords"
          /\ ret = << >>
          /\ ret' = <<translate_str_to_list_coords(call[2])>>
       \/ /\ call[1] = "translate_to_alg_coords"
          /\ Len(ret) = 1
          /\ ret' = Append(ret, translate_str_to_list_coords(ret[1]))
    /\ UNCHANGED <<board, pos, turn, game_state, attacker, call>>

\* translate_to_alg_coords of call's index pair, or of the pair returned
TranslateToAlg ==
    /\ \/ /\ call[1] = "translate_to_alg_coords"
          /\ ret = << >>
          /\ ret' = <<translate_to_alg_str(call[2])>>
       \/ /\ call[1] = "translate_to_list_coords"
          /\ Len(ret) = 1
          /\ ret' = Append(ret, translate_to_alg_str(ret[1]))
    /\ UNCHANGED <<board, pos, turn, game_state, attacker, call>>

CallsNext == PossibleMoves \/ TranslateToList \/ TranslateToAlg

CallsSpec == CallsInit /\ [][CallsNext]_vars

(***************************************************************************)
(* Properties of the game.  A property about the answer to a request is    *)
(* stated on make_move applied to the current state.                       *)
(***************************************************************************)
\* the answer to the request rq in the current state
Answer(rq) == make_move(board, pos, turn, game_state, rq[1], rq[2])

\* the answer out leaves board, positions, turn and outcome as they are
Same(out) ==
    /\ out.board = board
    /\ out.pos = pos
    /\ out.turn = turn
    /\ out.game_state = game_state

\* the piece on the square p of the current board
On(p) == At(board, translate_to_list_coords(p))

\* the colour name of the side on turn
OnTurn == IF turn = "R" THEN "red" ELSE "blue"

\* C1: once the outcome is RED_WON or BLUE_WON, every request, a pass
\* included, is answered "Game over!" and leaves board, positions, turn and
\* outcome unchanged, so the outcome is never UNFINISHED again and never
\* becomes the other side's win.
C1_GameOverIsFinal ==
    game_state # "UNFINISHED" =>
        \A p1 \in Squares, p2 \in Squares :
            LET out == make_move(board, pos, turn, game_state, p1, p2)
            IN out.result = Msg("Game over!", << >>) /\ Same(out)

C1_Witness == game_state \in {"RED_WON", "BLUE_WON"} /\ board # InitBoard

\* the request rq is a validated move of the side on turn after which that
\* side's General is in check
SelfCheck(rq) ==
    /\ game_state = "UNFINISHED"
    /\ check_move(board, pos, rq[1], rq[2]).is_list
    /\ get_color(On(rq[1])) = turn
    /\ LET moved == relocate([board |-> board, pos |-> pos], rq[1], rq[2])
       IN is_in_check(moved.board, moved.pos, OnTurn)

\* C2: a validated move of the side on turn that would leave its own
\* General in check is rejected, and board (the start square holds the moved
\* piece, the end square its previous occupant), positions, turn and
\* outcome are what they were before the call.
C2_SelfCheckRolledBack ==
    \A rq \in Requests(attacker) :
        SelfCheck(rq) =>
            /\ Answer(rq).result =
                 Msg("You can't make a move that puts/leaves your General in check.", << >>)
            /\ Same(Answer(rq))

\* a capture that would leave the capturing side's General in check
C2_Witness == \E rq \in Requests(attacker) : SelfCheck(rq) /\ On(rq[2]) # NoPiece

\* the request rq is one validation rejects
Invalid(rq) ==
    LET start_piece == On(rq[1])
        end_piece == On(rq[2])
        moves == start_piece_possible_moves(start_piece, pos[start_piece])
        in_between == SubSeq(path_to(moves, rq[2]), 1, Len(path_to(moves, rq[2])) - 1)
    IN /\ rq[1] # rq[2]
       /\ \/ start_piece = NoPiece
          \/ /\ start_piece # NoPiece
             /\ \/ ~in_legal_moves(moves, rq[2])
                \/ /\ in_legal_moves(moves, rq[2])
                   /\ IF TypeOf(start_piece) = "Cannon"
                      THEN ~path_ok_cannon(board, in_between)
                      ELSE ~path_ok_non_cannon(board, in_between)
                \/ get_color(end_piece) = get_color(start_piece)
                \/ TypeOf(start_piece) = "Cannon" /\ TypeOf(end_piece) = "Cannon"

\* the request rq is a pass while the General of the side on turn is in check
PassInCheck(rq) == rq[1] = rq[2] /\ is_in_check(board, pos, OnTurn)

\* the request rq asks to move a piece that is not of the side on turn
WrongSide(rq) == rq[1] # rq[2] /\ get_color(On(rq[1])) # turn

\* C3: a request rejected by validation (empty start, destination not
\* reachable, path blocked, Cannon screen rule, destination of the own side,
\* Cannon capturing Cannon), a pass while in check and a request for the
\* other side's piece leave board, positions, turn and outcome unchanged.
C3_RejectionChangesNothing ==
    \A rq \in Requests(attacker) :
        (Invalid(rq) \/ PassInCheck(rq) \/ WrongSide(rq)) => Same(Answer(rq))

\* a position after some play in which a pass in check, a request for the
\* other side's piece and a request onto an own piece are all made
C3_Witness ==
    /\ game_state = "UNFINISHED"
    /\ \E rq \in Requests(attacker) : PassInCheck(rq)
    /\ \E rq \in Requests(attacker) : WrongSide(rq) /\ check_move(board, pos, rq[1], rq[2]).is_list
    /\ \E rq \in Requests(attacker) :
          /\ Invalid(rq)
          /\ get_color(On(rq[1])) = turn
          /\ get_color(On(rq[2])) = turn

\* the side that is not on turn
Opposite == IF turn = "R" THEN "B" ELSE "R"

\* the answer out accepts a move or a pass and the game goes on
Accepted(out) ==
    /\ out.result.text \in {"Move from {pos1} to {pos2} completed.",
                            "{prev_turn} has passed on their turn."}
    /\ out.game_state = "UNFINISHED"

\* C4: a request answered by an accepted move or an accepted pass that
\* leaves the game UNFINISHED makes the turn the opposite side; every other
\* request leaves the turn as it was.  make_move is the only operation that
\* changes the turn.
C4_TurnAlternates ==
    \A rq \in Requests(attacker) :
        /\ turn \in {"R", "B"}
        /\ IF Accepted(Answer(rq)) THEN Answer(rq).turn = Opposite
           ELSE Answer(rq).turn = turn

\* Red is on turn after Blue's first accepted request, and an accepted
\* move, an accepted pass and a rejected request can follow
C4_Witness ==
    /\ turn = "R"
    /\ \E rq \in Requests(attacker) : Accepted(Answer(rq)) /\ Answer(rq).board # board
    /\ \E rq \in Requests(attacker) : Accepted(Answer(rq)) /\ Answer(rq).board = board
    /\ \E rq \in Requests(attacker) : ~Accepted(Answer(rq))

\* every square in lower-case and in upper-case notation
AnySquare == Squares \cup {<<q[1] - 32, q[2]>> : q \in Squares}

\* C5: while the General of the side on turn is in check, the pass
\* make_move(x, x) is rejected as a pass in check and changes nothing,
\* whatever square x is.
C5_NoPassInCheck ==
    (game_state = "UNFINISHED" /\ is_in_check(board, pos, OnTurn)) =>
        \A x \in AnySquare :
            LET out == make_move(board, pos, turn, game_state, x, x)
            IN /\ out.result = Msg("You may not pass when the General is in check.", << >>)
               /\ Same(out)

C5_Witness ==
    /\ game_state = "UNFINISHED"
    /\ is_in_check(board, pos, OnTurn)
    /\ \E rq \in Requests(attacker) : rq[1] = rq[2] /\ On(rq[1]) = NoPiece

LegalMove(rq) ==
    /\ game_state = "UNFINISHED"
    /\ check_move(board, pos, rq[1], rq[2]).is_list
    /\ get_color(On(rq[1])) = turn
    /\ LET moved == relocate([board |-> board, pos |-> pos], rq[1], rq[2])
       IN ~is_in_check(moved.board, moved.pos, OnTurn)

\* the move rq leaves the opponent in checkmate
Mates(rq) ==
    LET moved == relocate([board |-> board, pos |-> pos], rq[1], rq[2])
    IN checkmate(moved.board, moved.pos, IF turn = "R" THEN "blue" ELSE "red").value

\* C7: an accepted move that leaves the opponent in checkmate sets the
\* outcome to the mover's win (BLUE_WON for Blue, RED_WON for Red), keeps
\* the moved piece on its destination and does not advance the turn; an
\* accepted move that does not leaves the outcome UNFINISHED.
C7_CheckmateEndsTheGame ==
    \A rq \in Requests(attacker) :
        LegalMove(rq) =>
            IF Mates(rq)
            THEN /\ Answer(rq).game_state = (IF turn = "B" THEN "BLUE_WON" ELSE "RED_WON")
                 /\ Answer(rq).turn = turn
                 /\ At(Answer(rq).board, translate_to_list_coords(rq[2])) = On(rq[1])
                 /\ Answer(rq).pos[On(rq[1])] = rq[2]
            ELSE Answer(rq).game_state = "UNFINISHED"

\* Red is about to mate
C7_Witness == turn = "R" /\ \E rq \in Requests(attacker) : LegalMove(rq) /\ Mates(rq)

\* C8: between calls of make_move every real piece in a board slot reports
\* the notation of that slot as its position, and no piece is in two slots.
C8_BoardAndPositionsAgree ==
    /\ \A row \in Rows, col \in Cols :
          board[row][col] # NoPiece =>
              pos[board[row][col]] = translate_to_alg_coords(<<row, col>>)
    /\ \A j, k \in 1..90 :
          (j # k /\ At(board, AllCoords[j]) # NoPiece) =>
              At(board, AllCoords[j]) # At(board, AllCoords[k])

\* after a capture: a piece has moved onto the square of another
C8_Witness ==
    \E x, y \in Pieces : pos[y] = CAPTURED /\ pos[x] = InitPos[y] /\ On(pos[x]) = x

\* the squares of the board holding the General of a colour
GeneralsOf(color) ==
    {k \in 1..90 : /\ TypeOf(At(board, AllCoords[k])) = "General"
                   /\ get_color(At(board, AllCoords[k])) = color}

\* C9: the board always holds exactly one Red and exactly one Blue General,
\* and no request that moves a piece has a General on its destination.
C9_GeneralsStay ==
    /\ Cardinality(GeneralsOf("R")) = 1
    /\ Cardinality(GeneralsOf("B")) = 1
    /\ \A rq \in Requests(attacker) :
          Answer(rq).board # board => TypeOf(On(rq[2])) # "General"

\* a validated capture of a General is requested (and refused)
C9_Witness ==
    \E rq \in Requests(attacker) :
        /\ TypeOf(On(rq[2])) = "General"
        /\ get_color(On(rq[1])) # get_color(On(rq[2]))
        /\ check_move(board, pos, rq[1], rq[2]).is_list

\* the analysis of the General of team leaves the heap as it found it
Untouched(team) ==
    /\ general_can_escape(board, pos, team).board = board
    /\ general_can_escape(board, pos, team).pos = pos
    /\ checkmate(board, pos, team).board = board
    /\ checkmate(board, pos, team).pos = pos
    /\ is_in_check(board, pos, team) =>
          /\ general_can_capture(board, pos, team).board = board
          /\ general_can_capture(board, pos, team).pos = pos

\* C10: the analysis operations leave the state as they found it.
\* check_move, threat_list, is_in_check and general_can_block assign
\* nothing; general_can_escape, general_can_capture and checkmate, which
\* try moves on the board, return with every slot and every position as
\* before, whatever the trials found.
C10_AnalysisLeavesNoTrace == Untouched("red") /\ Untouched("blue")

\* a General in check with a capture to try as an escape and a friendly
\* piece that can take the threat
C10_Witness ==
    \E team \in {"red", "blue"} :
        /\ Len(threat_list(board, pos, team)) = 1
        /\ \E mv \in {GeneralMoves(q) : q \in {find_general(board, pos, shorten_color(team))}} :
              \E k \in 1..Len(mv) :
                  /\ check_move(board, pos, find_general(board, pos, shorten_color(team)),
                                mv[k][1]).is_list
                  /\ On(mv[k][1]) # NoPiece
        /\ Len(ways_to_capture_of(board, pos, shorten_color(team),
                                  pos[threat_list(board, pos, team)[1]])) > 0

\* the request rq is answered by an accepted move: the move is completed or
\* it ends the game
MoveAccepted(rq) ==
    /\ game_state = "UNFINISHED"
    /\ rq[1] # rq[2]
    /\ \/ Answer(rq).result.text = "Move from {pos1} to {pos2} completed."
       \/ Answer(rq).game_state # "UNFINISHED"

\* C11: after an accepted move from start to end, the end square holds the
\* piece that was on start and that piece reports end as its position, the
\* start square is empty, a previous occupant of end is no longer on the
\* board and its position is marked captured, and every other square and
\* every other piece's position is unchanged.
C11_MoveFrame ==
    \A rq \in Requests(attacker) :
        MoveAccepted(rq) =>
            LET out == Answer(rq)
                start_pos == translate_to_list_coords(rq[1])
                end_pos == translate_to_list_coords(rq[2])
                start_piece == On(rq[1])
                end_piece == On(rq[2])
            IN /\ start_piece # NoPiece
               /\ At(out.board, end_pos) = start_piece
               /\ out.pos[start_piece] = rq[2]
               /\ At(out.board, start_pos) = NoPiece
               /\ end_piece # NoPiece =>
                     /\ out.pos[end_piece] = CAPTURED
                     /\ \A row \in Rows, col \in Cols : At(out.board, <<row, col>>) # end_piece
               /\ \A row \in Rows, col \in Cols :
                     <<row, col>> \notin {start_pos, end_pos} =>
                         At(out.board, <<row, col>>) = At(board, <<row, col>>)
               /\ \A x \in Pieces \ {start_piece, end_piece} : out.pos[x] = pos[x]

\* a capture is accepted while another piece is already captured
C11_Witness ==
    /\ \E x \in Pieces : pos[x] = CAPTURED
    /\ \E rq \in Requests(attacker) : MoveAccepted(rq) /\ On(rq[2]) # NoPiece

\* the pieces of class that stand on the board
OnBoard(class) == {x \in Pieces : TypeOf(x) = class /\ pos[x] # CAPTURED}

\* the candidate paths of the piece x from the square it stands on
Candidates(x) == start_piece_possible_moves(x, pos[x])

\* the squares strictly between the piece x and end on the matched path
Between(x, end) == in_between_of(path_to(Candidates(x), end))

\* the squares strictly between x and end that hold a piece
Occupants(x, end) == {k \in 1..Len(Between(x, end)) : On(Between(x, end)[k]) # NoPiece}

\* exactly one piece stands between x and end and it is not a Cannon
OneScreen(x, end) ==
    /\ Cardinality(Occupants(x, end)) = 1
    /\ \A k \in Occupants(x, end) : TypeOf(On(Between(x, end)[k])) # "Cannon"

\* check_move validates the move of the piece x to end
Validates(x, end) == check_move(board, pos, pos[x], end).is_list

\* C12 as stated: for a Cannon and the last square end of one of its
\* candidate paths, check_move validates the move if and only if exactly one
\* occupant lies strictly between start and end on the matched path and
\* that occupant is not a Cannon.
C12_ScreenAlone ==
    \A x \in OnBoard("Cannon") : \A end \in Squares :
        in_legal_moves(Candidates(x), end) => (Validates(x, end) <=> OneScreen(x, end))

\* C12, amended: for a Cannon and the last square end of one of its
\* candidate paths, check_move validates the move if and only if exactly one
\* occupant lies strictly between start and end on the matched path, that
\* occupant is not a Cannon, and end holds neither a piece of the Cannon's
\* side nor a Cannon; with no piece in between the move is rejected for
\* want of a piece to jump over.
C12_CannonJump ==
    \A x \in OnBoard("Cannon") : \A end \in Squares :
        in_legal_moves(Candidates(x), end) =>
            /\ Validates(x, end) <=>
                  /\ OneScreen(x, end)
                  /\ get_color(On(end)) # get_color(x)
                  /\ TypeOf(On(end)) # "Cannon"
            /\ Occupants(x, end) = {} =>
                  check_move(board, pos, pos[x], end) =
                      Str("Cannons need another piece to jump over.")

\* a Cannon has a validated jump, a jump over one piece onto a piece of
\* its own side, a jump over one piece onto a Cannon, a destination behind
\* a Cannon and a destination with nothing in between
C12_Witness ==
    \E x \in OnBoard("Cannon") :
        /\ \E end \in Squares : in_legal_moves(Candidates(x), end) /\ Validates(x, end)
        /\ \E end \in Squares :
              /\ in_legal_moves(Candidates(x), end) /\ OneScreen(x, end)
              /\ get_color(On(end)) = get_color(x)
        /\ \E end \in Squares :
              /\ in_legal_moves(Candidates(x), end) /\ OneScreen(x, end)
              /\ TypeOf(On(end)) = "Cannon"
        /\ \E end \in Squares :
              /\ in_legal_moves(Candidates(x), end) /\ Cardinality(Occupants(x, end)) = 1
              /\ ~OneScreen(x, end)
        /\ \E end \in Squares :
              in_legal_moves(Candidates(x), end) /\ Occupants(x, end) = {}

\* the pieces that stand on the board
Standing == {x \in Pieces : pos[x] # CAPTURED}

\* C13: no move that check_move validates, and so no move that make_move
\* accepts, ends on a square that holds a piece of the mover's own side,
\* whatever the kind of the mover.
C13_NoOwnCapture ==
    /\ \A x \in Standing : \A end \in Squares :
          Validates(x, end) => get_color(On(end)) # get_color(x)
    /\ \A rq \in Skirmish(attacker) :
          MoveAccepted(rq) => get_color(On(rq[2])) # get_color(On(rq[1]))

\* a piece of every kind has a candidate path, clear as its kind requires,
\* that ends on a piece of its own side, and a request of the skirmish asks
\* for such a move
C13_Witness ==
    /\ \A class \in Classes :
          \E x \in Standing : \E end \in Squares :
              /\ TypeOf(x) = class
              /\ in_legal_moves(Candidates(x), end)
              /\ get_color(On(end)) = get_color(x)
              /\ IF class = "Cannon" THEN OneScreen(x, end) ELSE Occupants(x, end) = {}
    /\ \E rq \in Skirmish(attacker) :
          /\ get_color(On(rq[1])) = turn
          /\ get_color(On(rq[2])) = turn
          /\ Answer(rq).result.text = "End position blocked by same team's piece."

\* the move of the piece x to end is stopped by nothing but a piece of the
\* side color standing on the way
StoppedBy(x, end, color) ==
    /\ in_legal_moves(Candidates(x), end)
    /\ get_color(On(end)) # get_color(x)
    /\ \E k \in Occupants(x, end) : get_color(On(Between(x, end)[k])) = color

\* the squares p and q lie on a diagonal
Diagonal(p, q) == p[1] # q[1] /\ p[2] # q[2]

\* C14: for every piece that is not a Cannon, check_move validates a move
\* only if every square of the matched path other than the destination is
\* empty, so a Horse, an Elephant or a Chariot, the Chariot on a diagonal
\* of a Palace included, never passes over a piece of either side; no
\* such move is accepted by make_move.
C14_NoPassingOver ==
    /\ \A x \in Standing : \A end \in Squares :
          (TypeOf(x) # "Cannon" /\ Validates(x, end)) => Occupants(x, end) = {}
    /\ \A rq \in Skirmish(attacker) :
          (MoveAccepted(rq) /\ TypeOf(On(rq[1])) # "Cannon") => Occupants(On(rq[1]), rq[2]) = {}

\* a Horse, an Elephant and a Chariot are each stopped by a piece of their
\* own side and by a piece of the other side, and the side on turn asks
\* for a Chariot's move along a diagonal of a Palace over an occupied square
C14_Witness ==
    /\ \A class \in {"Horse", "Elephant", "Chariot"} :
          /\ \E x \in OnBoard(class) : \E end \in Squares :
                StoppedBy(x, end, get_color(x))
          /\ \E x \in OnBoard(class) : \E end \in Squares :
                StoppedBy(x, end, IF get_color(x) = "R" THEN "B" ELSE "R")
    /\ \E rq \in Skirmish(attacker) :
          /\ TypeOf(On(rq[1])) = "Chariot"
          /\ get_color(On(rq[1])) = turn
          /\ Diagonal(rq[1], rq[2])
          /\ in_palace(rq[1]) /\ in_palace(rq[2])
          /\ \E color \in {"R", "B"} : StoppedBy(On(rq[1]), rq[2], color)
          /\ Answer(rq).result.text = "Path is blocked."

\* C15: a Cannon never captures a Cannon: check_move rejects every Cannon
\* move whose destination holds a Cannon, and no accepted move has a Cannon
\* as the mover and a Cannon as the captured piece.
C15_CannonSparesCannon ==
    /\ \A x \in OnBoard("Cannon") : \A end \in Squares :
          TypeOf(On(end)) = "Cannon" => ~Validates(x, end)
    /\ \A rq \in Skirmish(attacker) :
          MoveAccepted(rq) => ~(TypeOf(On(rq[1])) = "Cannon" /\ TypeOf(On(rq[2])) = "Cannon")

\* the side on turn asks its Cannon to jump over one piece that is not a
\* Cannon onto a Cannon of the other side, and is told it cannot
C15_Witness ==
    \E rq \in Skirmish(attacker) :
        /\ TypeOf(On(rq[1])) = "Cannon"
        /\ get_color(On(rq[1])) = turn
        /\ TypeOf(On(rq[2])) = "Cannon"
        /\ get_color(On(rq[2])) # turn
        /\ in_legal_moves(Candidates(On(rq[1])), rq[2])
        /\ OneScreen(On(rq[1]), rq[2])
        /\ Answer(rq).result.text = "Cannons can't capture other cannons."

\* the notation q names one of the 90 squares: column a-i, row 1-10
OnTheBoard(q) == q[1] \in Ord.a..Ord.i /\ q[2] \in 1..10

\* the squares of Red's Palace and of Blue's Palace
RedPalace == {<<letter, number>> : letter \in Ord.d..Ord.f, number \in 1..3}

BluePalace == {<<letter, number>> : letter \in Ord.d..Ord.f, number \in 8..10}

\* possible_moves has returned the list ret[1] for the piece of call
Generated == call[1] = "possible_moves" /\ Len(ret) = 1

\* C16: for every kind of piece, both sides and every one of the 90
\* squares, every square of every candidate path possible_moves returns is
\* on the board (column a-i, row 1-10) and no path contains the starting
\* square; every candidate of a General or a Guard standing in a Palace
\* lies in that same Palace.
C16_GeometryClosure ==
    Generated =>
        \A m \in 1..Len(ret[1]) :
            /\ Len(ret[1][m]) >= 1
            /\ \A k \in 1..Len(ret[1][m]) :
                  /\ OnTheBoard(ret[1][m][k])
                  /\ ret[1][m][k] # call[4]
                  /\ \A Palace \in {RedPalace, BluePalace} :
                        (call[2] \in {"General", "Guard"} /\ call[4] \in Palace) =>
                            ret[1][m][k] \in Palace

\* a Guard on the corner d8 of Blue's Palace, with d7 and c8 beside it
\* outside the Palace, has got its three candidates
C16_Witness ==
    /\ Generated
    /\ call[2] = "Guard" /\ call[4] = <<Ord.d, 8>>
    /\ Len(ret[1]) = 3

\* the index pair rc is one of the 90 slots of the board
Slot(rc) == rc[1] \in Rows /\ rc[2] \in Cols

\* the 90 valid notations: a letter a-i followed by the digits of 1-10
Valid == {<<letter, 48 + number>> : letter \in Ord.a..Ord.i, number \in 1..9}
             \cup {<<letter, 49, 48>> : letter \in Ord.a..Ord.i}

\* C17: for every valid notation s (column a-i, row 1-10)
\* translate_to_alg_coords(translate_to_list_coords(s)) is s, and for every
\* index pair (row 0-9, column 0-8) translating to notation and back gives
\* the same pair; each translation takes the 90 squares into the 90 squares
\* of the other encoding, so the two are a bijection.
C17_RoundTrip ==
    /\ (call[1] = "translate_to_list_coords" /\ call[2] \in Valid) =>
          /\ Len(ret) >= 1 => Slot(ret[1])
          /\ Len(ret) = 2 => ret[2] = call[2]
    /\ call[1] = "translate_to_alg_coords" =>
          /\ Len(ret) >= 1 => ret[1] \in Valid
          /\ Len(ret) = 2 => ret[2] = call[2]

\* "i10" has been translated to the index pair (9, 8) and back
C17_Witness ==
    /\ call = <<"translate_to_list_coords", <<Ord.i, 49, 48>> >>
    /\ Len(ret) = 2
    /\ ret[1] = <<9, 8>>

\* the notation p has a column letter outside a-i or a row number outside
\* 1-10
OffTheBoard(p) == ~OnTheBoard(<<Lower(p[1]), p[2]>>)

\* the answer out carries a request out: a move is completed, a pass is
\* taken or the game is won
CarriedOut(out) ==
    \/ out.result.text \in {"Move from {pos1} to {pos2} completed.",
                            "{prev_turn} has passed on their turn."}
    \/ out.game_state # game_state

\* C18: a request whose start or end has a column letter outside a-i or a
\* row number outside 1-10 fails: it is not carried out and it leaves board,
\* positions, turn and outcome as they are, no slot of the board being
\* read or written for it.
C18_OffBoardNotationFails ==
    \A rq \in Entries(attacker) :
        (game_state = "UNFINISHED" /\ (OffTheBoard(rq[1]) \/ OffTheBoard(rq[2]))) =>
            /\ ~CarriedOut(Answer(rq))
            /\ Same(Answer(rq))

\* the back rank from column a to column i
BackRank ==
    <<"Chariot", "Elephant", "Horse", "Guard", "NoPiece", "Guard", "Elephant", "Horse",
      "Chariot">>

\* the kind of piece a side starts with on column col, depth rows inward
\* from its edge of the board (0 is the back rank)
StartKind(col, depth) ==
    IF depth = 0 THEN BackRank[col + 1]
    ELSE IF depth = 1 /\ col = 4 THEN "General"
    ELSE IF depth = 2 /\ col \in {1, 7} THEN "Cannon"
    ELSE IF depth = 3 /\ col \in {0, 2, 4, 6, 8} THEN "Soldier"
    ELSE "NoPiece"

\* the board b is laid out as at the start: Red on rows 1-4, Blue mirrored
\* on rows 10-7, the rows between empty
LaidOut(b) ==
    \A row \in Rows, col \in Cols :
        LET x == At(b, <<row, col>>)
        IN IF row <= 3
           THEN TypeOf(x) = StartKind(col, row) /\ get_color(x) \in {"R", "X"}
           ELSE IF row >= 6
           THEN TypeOf(x) = StartKind(col, 9 - row) /\ get_color(x) \in {"B", "X"}
           ELSE x = NoPiece

StartLayout == LaidOut(board)

\* the pieces on the squares of the board and the captured pieces are 32
ThirtyTwo ==
    Cardinality({rc \in Rows \X Cols : At(board, rc) # NoPiece})
        + Cardinality({x \in Pieces : pos[x] = CAPTURED}) = 32

\* C19: a new game starts UNFINISHED with Blue on turn and exactly 32
\* pieces: for each side a back rank of Chariot, Elephant, Horse, Guard,
\* empty, Guard, Elephant, Horse, Chariot on columns a-i, the General on
\* column e one row inward, Cannons on b and h two rows inward, Soldiers
\* on a, c, e, g, i three rows inward (Red on rows 1-4, Blue on rows 10-7);
\* every other square is empty, every piece reports the square it stands
\* on and neither General is in check.  Those 32 are the pieces of the game
\* from then on, on the board or captured.
C19_NewGame ==
    /\ LaidOut(board)
    /\ game_state = "UNFINISHED"
    /\ turn = "B"
    /\ Cardinality({rc \in Rows \X Cols : At(board, rc) # NoPiece}) = 32
    /\ \A x \in Pieces : pos[x] \in Squares /\ On(pos[x]) = x
    /\ ~is_in_check(board, pos, "red")
    /\ ~is_in_check(board, pos, "blue")
    /\ []ThirtyTwo

\* the game as its construction leaves it, before any request
C19_Witness ==
    /\ board = InitBoard /\ pos = InitPos
    /\ game_state = "UNFINISHED" /\ turn = "B"
    /\ On(<<Ord.e, 2>>) # NoPiece /\ On(<<Ord.e, 9>>) # NoPiece

\* the request to move the Soldier on e4 to e5
e4_e5 == <<Sq(Ord.e, 4), Sq(Ord.e, 5)>>

\* the answer out to e4_e5 completes the move: e4 is empty, e5 holds the
\* Soldier that stood on e4, which reports e5, nothing else has moved and
\* the turn has gone to the other side
SoldierAdvanced(out) ==
    /\ out.result = Msg("Move from {pos1} to {pos2} completed.", e4_e5)
    /\ At(out.board, translate_to_list_coords(e4_e5[1])) = NoPiece
    /\ At(out.board, translate_to_list_coords(e4_e5[2])) = On(e4_e5[1])
    /\ TypeOf(On(e4_e5[1])) = "Soldier"
    /\ out.pos = [pos EXCEPT ![On(e4_e5[1])] = e4_e5[2]]
    /\ out.board = Put(Put(board, translate_to_list_coords(e4_e5[2]), On(e4_e5[1])),
                       translate_to_list_coords(e4_e5[1]), NoPiece)
    /\ out.turn = Opposite
    /\ out.game_state = "UNFINISHED"

\* the starting position with the side t on turn
StartWith(t) == StartLayout /\ game_state = "UNFINISHED" /\ turn = t

\* C20 as stated: from the starting position, the first request
\* make_move('e4', 'e5') succeeds: e4 is empty, e5 holds that Soldier and the
\* turn has flipped.
C20_FirstRequestAdvances == StartWith("B") => SoldierAdvanced(Answer(e4_e5))

\* C20, amended: the Soldier on e4 is Red's and Blue moves first, so from
\* the starting position the first request make_move('e4', 'e5') is
\* answered "You may not move another team's piece." and changes nothing;
\* from the starting position with Red on turn, as after Blue's pass, the
\* request succeeds: e4 is empty, e5 holds that Soldier and the turn has
\* flipped to Blue.
C20_RedSoldierAdvances ==
    /\ StartWith("B") =>
          /\ Answer(e4_e5).result = Msg("You may not move another team's piece.", << >>)
          /\ Same(Answer(e4_e5))
    /\ StartWith("R") => SoldierAdvanced(Answer(e4_e5))

\* the starting position after Blue's pass, the request being one of the play
C20_Witness ==
    /\ StartWith("R")
    /\ board = InitBoard /\ pos = InitPos
    /\ e4_e5 \in Requests(attacker)

\* end is not the last square of any candidate path of the piece x
OutOfReach(x, end) == end # pos[x] /\ ~in_legal_moves(Candidates(x), end)

\* C21: a request whose destination is not the last square of any
\* candidate path of the piece on the start square is answered "Not a valid
\* move." and changes nothing, whether or not the piece is of the side on
\* turn.
C21_OutOfReachRejected ==
    game_state = "UNFINISHED" =>
        \A x \in Standing : \A end \in Squares :
            OutOfReach(x, end) =>
                \A out \in {make_move(board, pos, turn, game_state, pos[x], end)} :
                    out.result = Msg("Not a valid move.", << >>) /\ Same(out)

\* on the first turn a request of the play asks a Guard of the side that
\* is not on turn for a square outside its own Palace
C21_Witness ==
    /\ StartWith("B")
    /\ \E rq \in Requests(attacker) :
          /\ TypeOf(On(rq[1])) = "Guard" /\ get_color(On(rq[1])) # turn
          /\ OutOfReach(On(rq[1]), rq[2])
          /\ \A Palace \in {RedPalace, BluePalace} : rq[1] \in Palace => rq[2] \notin Palace

\* no request to move a piece of the side that is not on turn is carried
\* out: board, positions, turn and outcome are left as they are
OtherSideRefused ==
    game_state = "UNFINISHED" =>
        \A x \in Standing : \A end \in Squares :
            (get_color(x) # turn /\ end # pos[x]) =>
                \A out \in {make_move(board, pos, turn, game_state, pos[x], end)} :
                    ~CarriedOut(out) /\ Same(out)

\* a piece that goes to another square in a step is of the side on turn
MoverOnTurn ==
    \A x \in Pieces : (pos'[x] # pos[x] /\ pos'[x] # CAPTURED) => get_color(x) = turn

\* C22: a request, with start different from end, whose start square holds
\* a piece of the side that is not on turn is never accepted and changes
\* nothing, so in no sequence of requests does a piece move while it is
\* the other side's turn.
C22_OnlyTheSideOnTurnMoves == []OtherSideRefused /\ [][MoverOnTurn]_vars

\* a request of the play asks for a move check_move validates, of a piece
\* of the side that is not on turn, after moves of both sides
C22_Witness ==
    /\ game_state = "UNFINISHED"
    /\ \E x \in Pieces : get_color(x) = "R" /\ pos[x] \notin {InitPos[x], CAPTURED}
    /\ \E x \in Pieces : get_color(x) = "B" /\ pos[x] \notin {InitPos[x], CAPTURED}
    /\ \E rq \in Requests(attacker) :
          /\ WrongSide(rq) /\ On(rq[1]) # NoPiece
          /\ check_move(board, pos, rq[1], rq[2]).is_list

\* the names of the two sides and the letter of each
Sides == {"red", "blue"}

Letter(side) == IF side = "red" THEN "R" ELSE "B"

\* the General of side
GeneralOf(side) == CHOOSE x \in Pieces : TypeOf(x) = "General" /\ get_color(x) = Letter(side)

\* the pieces in the list lst
Members(lst) == {lst[k] : k \in 1..Len(lst)}

\* the enemy pieces on the board with a validated move from their square
\* onto the square of side's General
Threatening(side) ==
    {x \in Standing : get_color(x) # Letter(side) /\ Validates(x, pos[GeneralOf(side)])}

\* C23: threat_list(side) is exactly the enemy pieces on the board for
\* which check_move from the piece's square to the square of side's General
\* validates, each listed once, and is_in_check(side) is true if and only
\* if there is such a piece.
C23_ThreatsAreTheValidatedAttacks ==
    \A side \in Sides :
        \A threats \in {threat_list(board, pos, side)} :
            /\ Members(threats) = Threatening(side)
            /\ Len(threats) = Cardinality(Threatening(side))
            /\ is_in_check(board, pos, side) <=> Threatening(side) # {}

\* the General of the side on turn is threatened by two pieces, and an
\* enemy piece that has the General's square at the end of a candidate path
\* does not threaten it
C23_Witness ==
    /\ game_state = "UNFINISHED"
    /\ Cardinality(Threatening(OnTurn)) = 2
    /\ \E x \in Standing :
          /\ get_color(x) # turn
          /\ in_legal_moves(Candidates(x), pos[GeneralOf(OnTurn)])
          /\ x \notin Threatening(OnTurn)

\* the three ways out of a check, as the analysis of the present position
\* answers them for side
CanEscape(side) == general_can_escape(board, pos, side).value

CanCapture(side) == general_can_capture(board, pos, side).value

CanBlock(side) == general_can_block(board, pos, side)

\* C24: checkmate(side) is true if and only if side is in check and
\* general_can_escape, general_can_capture and general_can_block are all
\* false; it is false whenever side is not in check.
C24_MateIsCheckWithNoWayOut ==
    \A side \in Sides :
        IF is_in_check(board, pos, side)
        THEN checkmate(board, pos, side).value
                 <=> (~CanEscape(side) /\ ~CanCapture(side) /\ ~CanBlock(side))
        ELSE ~checkmate(board, pos, side).value

\* the side on turn is in check with no escape and no capture, and is not
\* mated because the check can be blocked
C24_Witness ==
    /\ game_state = "UNFINISHED"
    /\ is_in_check(board, pos, OnTurn)
    /\ ~CanEscape(OnTurn) /\ ~CanCapture(OnTurn) /\ CanBlock(OnTurn)
    /\ ~checkmate(board, pos, OnTurn).value

\* the position after the General of side is relocated to the square q
GeneralAt(side, q) == relocate([board |-> board, pos |-> pos], pos[GeneralOf(side)], q)

\* the one-step destinations of side's General that check_move validates
\* and on which, once the General is relocated there, side is not in check
SafeSquares(side) ==
    {q \in Squares :
        /\ in_legal_moves(Candidates(GeneralOf(side)), q)
        /\ Validates(GeneralOf(side), q)
        /\ \A st \in {GeneralAt(side, q)} : ~is_in_check(st.board, st.pos, side)}

\* C25: general_can_escape(side) is true if and only if the General has a
\* one-step destination that check_move validates and on which, the General
\* relocated there and an enemy occupant removed, side is not in check; with
\* exactly one such square general_can_escape is true and checkmate false.
C25_EscapeIsASafeSquare ==
    \A side \in Sides :
        \A safe \in {SafeSquares(side)} :
            /\ CanEscape(side) <=> safe # {}
            /\ Cardinality(safe) = 1 => ~checkmate(board, pos, side).value

\* the side on turn is in check and its General has exactly one safe
\* square, which an enemy piece stands on, and a validated step onto a
\* square that is not safe
C25_Witness ==
    /\ game_state = "UNFINISHED"
    /\ is_in_check(board, pos, OnTurn)
    /\ Cardinality(SafeSquares(OnTurn)) = 1
    /\ \A q \in SafeSquares(OnTurn) : On(q) # NoPiece
    /\ \E q \in Squares \ SafeSquares(OnTurn) :
          /\ in_legal_moves(Candidates(GeneralOf(OnTurn)), q)
          /\ Validates(GeneralOf(OnTurn), q)

\* the position after the piece x is relocated to the square q
MovedTo(x, q) == relocate([board |-> board, pos |-> pos], pos[x], q)

\* the pieces of side, the General included, with a validated move onto the
\* square of the piece y after which side is not in check
Capturers(side, y) ==
    {x \in Standing :
        /\ get_color(x) = Letter(side)
        /\ Validates(x, pos[y])
        /\ \A st \in {MovedTo(x, pos[y])} : ~is_in_check(st.board, st.pos, side)}

\* C26: general_can_capture(side) is false whenever two or more pieces
\* threaten side's General; with exactly one threat it is true if and only
\* if some piece of side, the General included, has a validated move onto
\* the threat's square after which side is not in check.
C26_CaptureOfTheOneThreat ==
    \A side \in Sides :
        \A threats \in {Threatening(side)} :
            /\ Cardinality(threats) >= 2 => ~CanCapture(side)
            /\ Cardinality(threats) = 1 =>
                  \A y \in threats : CanCapture(side) <=> Capturers(side, y) # {}

\* the pieces of side with a validated move onto the square of the piece y
Takers(side, y) == {x \in Standing : get_color(x) = Letter(side) /\ Validates(x, pos[y])}

\* the side on turn is in check from one piece, which one of its pieces
\* can capture to end the check and another can capture only to leave the
\* General in check
C26_Witness ==
    /\ game_state = "UNFINISHED"
    /\ Cardinality(Threatening(OnTurn)) = 1
    /\ \A y \in Threatening(OnTurn) :
          /\ Capturers(OnTurn, y) # {}
          /\ Takers(OnTurn, y) \ Capturers(OnTurn, y) # {}

\* the capture path of the threat x onto side's General: the matched
\* candidate path, the General's square last
CapturePath(x, side) == path_to(Candidates(x), pos[GeneralOf(side)])

\* the pieces of side other than its General
Blockers(side) == {z \in Standing : get_color(z) = Letter(side) /\ TypeOf(z) # "General"}

\* a piece of side other than the General has a validated move onto a
\* square of the capture path of the threat x
CanBeBlocked(x, side) ==
    \E k \in 1..Len(CapturePath(x, side)) :
        \E z \in Blockers(side) : Validates(z, CapturePath(x, side)[k])

\* C27: general_can_block(side) returns true whenever, for any number of
\* threats, no threat has a capture path of length 1 and every threat's
\* capture path has a square onto which a piece of side other than the
\* General has a validated move.
C27_EveryPathBlockable ==
    \A side \in Sides :
        \A threats \in {Threatening(side)} :
            (/\ threats # {}
             /\ \A x \in threats : Len(CapturePath(x, side)) > 1
             /\ \A x \in threats : CanBeBlocked(x, side))
                => CanBlock(side)

\* the threats to side's General that stand a single step from it
OneStepThreats(side) == {x \in Threatening(side) : Len(CapturePath(x, side)) = 1}

\* C28: general_can_block(side) returns false whenever at least one threat
\* is a single step from side's General (a capture path of length 1),
\* whatever other threats there are.
C28_OneStepThreatNeverBlocked ==
    \A side \in Sides : OneStepThreats(side) # {} => ~CanBlock(side)

\* the side on turn is in check from a piece one step from its General and
\* from a piece further off whose capture path can be blocked
C28_Witness ==
    /\ game_state = "UNFINISHED"
    /\ OneStepThreats(OnTurn) # {}
    /\ \E x \in Threatening(OnTurn) \ OneStepThreats(OnTurn) : CanBeBlocked(x, OnTurn)

\* the change of row number of a step toward the opponent's side: Red
\* starts on rows 1-4 and Blue on rows 7-10
Ahead(color) == IF color = "R" THEN 1 ELSE -1

\* the Palace on the side of the board where color starts
PalaceOf(color) == IF color = "R" THEN RedPalace ELSE BluePalace

\* the centre of a Palace, where its diagonal lines cross
Centre(Palace) == CHOOSE q \in Palace : \A r \in Palace : r[1] - q[1] \in -1..1 /\ r[2] - q[2] \in -1..1

\* one step toward the opponent's side and one step to each side
StraightSteps(color, p) == {<<p[1], p[2] + Ahead(color)>>, <<p[1] + 1, p[2]>>, <<p[1] - 1, p[2]>>}

\* the forward diagonal steps from p along the diagonal lines of Palace
DiagonalSteps(color, p, Palace) ==
    {q \in Palace : /\ p \in Palace
                    /\ q[2] = p[2] + Ahead(color)
                    /\ q[1] - p[1] \in {-1, 1}
                    /\ Centre(Palace) \in {p, q}}

\* possible_moves has returned, for the Soldier of call, the squares of
\* StraightSteps that are on the board and the forward diagonal steps of
\* Palace, each once and as a path of its own, and nothing else
SoldierYields(Palace) ==
    \A Steps \in {{q \in StraightSteps(call[3], call[4]) : OnTheBoard(q)}
                      \cup DiagonalSteps(call[3], call[4], Palace)} :
        /\ \A m \in 1..Len(ret[1]) : Len(ret[1][m]) = 1
        /\ {ret[1][m][1] : m \in 1..Len(ret[1])} = Steps
        /\ Len(ret[1]) = Cardinality(Steps)

\* no square possible_moves has returned is on a row behind the piece
NeverBackward ==
    \A m \in 1..Len(ret[1]) : \A k \in 1..Len(ret[1][m]) :
        (ret[1][m][k][2] - call[4][2]) * Ahead(call[3]) >= 0

\* possible_moves has returned the list ret[1] for a Soldier
SoldierGenerated == Generated /\ call[2] = "Soldier"

\* C29 as stated: for every square and both sides, Soldier.possible_moves
\* yields exactly one step toward the opponent's side and one step to each
\* side (off-board ones dropped), plus, inside the Soldier's own Palace, one
\* forward diagonal step from each of the three Palace squares where a
\* forward diagonal line exists; it never yields a square on a row behind.
C29_OwnPalaceDiagonals ==
    SoldierGenerated => SoldierYields(PalaceOf(call[3])) /\ NeverBackward

\* C29 amended: the same, with the forward diagonal steps inside the
\* opponent's Palace (a Red Soldier on d8, f8 or e9, a Blue Soldier on d3,
\* f3 or e2) and none inside the Soldier's own.
C29_EnemyPalaceDiagonals ==
    SoldierGenerated =>
        SoldierYields(PalaceOf(IF call[3] = "R" THEN "B" ELSE "R")) /\ NeverBackward

\* a Red Soldier on the centre e9 of Blue's Palace has got its five
\* candidates, the two forward diagonals d10 and f10 among them
C29_Witness ==
    /\ SoldierGenerated
    /\ call[3] = "R" /\ call[4] = <<Ord.e, 9>>
    /\ Len(ret[1]) = 5
    /\ \E m, n \in 1..Len(ret[1]) : ret[1][m] = <<Sq(Ord.d, 10)>> /\ ret[1][n] = <<Sq(Ord.f, 10)>>

\* the four orthogonal unit steps, as changes of letter and of number
Orthogonal == {<<1, 0>>, <<-1, 0>>, <<0, 1>>, <<0, -1>>}

\* the two diagonal unit steps that continue outward after the step o
Outward(o) == {d \in {-1, 1} \X {-1, 1} : d[1] = o[1] \/ d[2] = o[2]}

\* the square k diagonal steps d after the orthogonal step o from p
Along(p, o, d, k) == <<p[1] + o[1] + k * d[1], p[2] + o[2] + k * d[2]>>

\* the 8 templates of a piece that makes one orthogonal step and then n
\* diagonal steps outward, from the square p
Templates(p, n) ==
    UNION {{[k \in 1..(n + 1) |-> Along(p, o, d, k - 1)] : d \in Outward(o)} : o \in Orthogonal}

\* the number of diagonal steps of the piece of call: 1 for a Horse, 2 for
\* an Elephant
Diagonals == IF call[2] = "Horse" THEN 1 ELSE 2

\* a template of which every square is on the board
WholeOnBoard(path) == \A k \in 1..Len(path) : OnTheBoard(path[k])

\* possible_moves has returned the list ret[1] for a Horse or an Elephant
JumperGenerated == Generated /\ call[2] \in {"Horse", "Elephant"}

\* C30: from every square, every Horse path has exactly 2 squares and every
\* Elephant path exactly 3, each following one of the 8 templates (one
\* orthogonal step, then one or two diagonal steps continuing outward); the
\* paths returned are the templates that lie on the board whole, each once,
\* so that a template with a square off the board contributes no path.
C30_WholeTemplatesOnly ==
    JumperGenerated =>
        /\ Cardinality(Templates(call[4], Diagonals)) = 8
        /\ \A m \in 1..Len(ret[1]) : Len(ret[1][m]) = Diagonals + 1
        /\ {ret[1][m] : m \in 1..Len(ret[1])}
              = {path \in Templates(call[4], Diagonals) : WholeOnBoard(path)}
        /\ \A m, n \in 1..Len(ret[1]) : ret[1][m] = ret[1][n] => m = n

\* an Elephant on b1 has got its two candidates, while four more of its
\* templates start on the board and leave it on the way
C30_Witness ==
    /\ JumperGenerated
    /\ call[2] = "Elephant" /\ call[4] = <<Ord.b, 1>>
    /\ Len(ret[1]) = 2
    /\ Cardinality({path \in Templates(call[4], Diagonals) :
                        OnTheBoard(path[1]) /\ ~WholeOnBoard(path)}) = 4

\* the squares of a Palace on its diagonal lines: the corners and the centre
OnDiagonalLine(Palace) ==
    {q \in Palace : q = Centre(Palace) \/ (q[1] # Centre(Palace)[1] /\ q[2] # Centre(Palace)[2])}

\* the k consecutive squares from p in the direction d
Run(p, d, k) == [j \in 1..k |-> <<p[1] + j * d[1], p[2] + j * d[2]>>]

\* the orthogonal paths from p: for each direction and each distance to
\* the edge of the board, the consecutive squares in that direction
OrthogonalRuns(p) ==
    {path \in {Run(p, o, k) : o \in Orthogonal, k \in 1..9} : WholeOnBoard(path)}

\* the diagonal paths from p: along the diagonal lines of a Palace, one and
\* two steps from a corner, one step from the centre
DiagonalRuns(p) ==
    UNION {{path \in {Run(p, d, k) : d \in {-1, 1} \X {-1, 1}, k \in 1..2} :
               /\ p \in OnDiagonalLine(Palace)
               /\ \A j \in 1..Len(path) : path[j] \in OnDiagonalLine(Palace)} :
           Palace \in {RedPalace, BluePalace}}

\* possible_moves has returned the list ret[1] for a Chariot or a Cannon
SliderGenerated == Generated /\ call[2] \in {"Chariot", "Cannon"}

\* C31: from every square, Chariot.possible_moves yields, for each of the
\* four orthogonal directions and each distance k from 1 to the edge of the
\* board, exactly one path made of the k consecutive squares in that
\* direction; diagonal paths only from the squares on the diagonal lines of
\* a Palace (one and two steps from the corners, one step from the centre);
\* and the candidate paths of a Cannon equal those of a Chariot.
C31_SlidesAndPalaceDiagonals ==
    SliderGenerated =>
        /\ {ret[1][m] : m \in 1..Len(ret[1])} = OrthogonalRuns(call[4]) \cup DiagonalRuns(call[4])
        /\ \A m, n \in 1..Len(ret[1]) : ret[1][m] = ret[1][n] => m = n
        /\ ret[1] = possible_moves("Chariot", call[3], call[4])

\* a Cannon on the corner d8 of Blue's Palace has got its 19 candidates:
\* 17 along the row and the column, and the diagonal to e9 and on to f10
C31_Witness ==
    /\ SliderGenerated
    /\ call[2] = "Cannon" /\ call[4] = <<Ord.d, 8>>
    /\ Len(ret[1]) = 19
    /\ DiagonalRuns(call[4]) = {<<Sq(Ord.e, 9)>>, <<Sq(Ord.e, 9), Sq(Ord.f, 10)>>}

\* the one-step orthogonal neighbours of p
Neighbours(p) == {<<p[1] + o[1], p[2] + o[2]>> : o \in Orthogonal}

\* the one-step diagonal moves from p along the diagonal lines of Palace:
\* from a corner to the centre, from the centre to the four corners
DiagonalNeighbours(p, Palace) ==
    {q \in Palace : /\ p \in Palace
                    /\ q[1] - p[1] \in {-1, 1} /\ q[2] - p[2] \in {-1, 1}
                    /\ Centre(Palace) \in {p, q}}

\* possible_moves has returned the list ret[1] for a General or a Guard
\* standing in a Palace
StayerGenerated ==
    Generated /\ call[2] \in {"General", "Guard"} /\ call[4] \in RedPalace \cup BluePalace

\* C32: from every Palace square, General.possible_moves (shared by Guard)
\* yields the one-step orthogonal neighbours that lie inside a Palace, plus
\* one-step diagonal moves only from the four corners of the Palace (toward
\* its centre) and from the centre (to the four corners), each as a path of
\* its own and once; from the four edge midpoints no diagonal move.
C32_PalaceSteps ==
    StayerGenerated =>
        \A Palace \in {Q \in {RedPalace, BluePalace} : call[4] \in Q} :
            /\ \A m \in 1..Len(ret[1]) : Len(ret[1][m]) = 1
            /\ {ret[1][m][1] : m \in 1..Len(ret[1])}
                  = (Neighbours(call[4]) \cap (RedPalace \cup BluePalace))
                        \cup DiagonalNeighbours(call[4], Palace)
            /\ \A m, n \in 1..Len(ret[1]) : ret[1][m] = ret[1][n] => m = n
            /\ call[4] \notin OnDiagonalLine(Palace) =>
                  \A m \in 1..Len(ret[1]) : ret[1][m][1] \in Neighbours(call[4])

\* a General on the edge midpoint e8 of Blue's Palace has got its three
\* candidates d8, f8 and e9: e7 lies outside the Palace, and d9 and f9 lie
\* inside it but on no diagonal line from e8
C32_Witness ==
    /\ StayerGenerated
    /\ call[2] = "General" /\ call[4] = <<Ord.e, 8>>
    /\ {ret[1][m] : m \in 1..Len(ret[1])}
          = {<<Sq(Ord.d, 8)>>, <<Sq(Ord.f, 8)>>, <<Sq(Ord.e, 9)>>}

\* the candidate paths of the list moves that end on the square q
EndingOn(moves, q) == {m \in 1..Len(moves) : Last(moves[m]) = q}

\* C33: for every kind of piece, both sides and every square of the board,
\* no two candidate paths possible_moves returns end on the same
\* destination, so the path the loop of check_move matches for a
\* destination is the only candidate that ends there.
C33_OnePathPerDestination ==
    Generated =>
        /\ \A m, n \in 1..Len(ret[1]) : Last(ret[1][m]) = Last(ret[1][n]) => m = n
        /\ \A q \in Squares :
              in_legal_moves(ret[1], q) =>
                  \A m \in EndingOn(ret[1], q) : ret[1][m] = path_to(ret[1], q)

\* a Horse in the middle of the board has got its eight candidates, every
\* two of which that start with the same step end on different squares
C33_Witness ==
    /\ Generated
    /\ call[2] = "Horse" /\ call[4] = <<Ord.e, 5>>
    /\ Len(ret[1]) = 8
    /\ \E m, n \in 1..Len(ret[1]) : m # n /\ ret[1][m][1] = ret[1][n][1]
    /\ \A q \in Squares : Cardinality(EndingOn(ret[1], q)) <= 1

\* the moves of side that make_move would accept on side's turn: a piece of
\* side and a square it has a validated move onto, after which side's
\* General is not in check
AcceptableMoves(side) ==
    {mv \in Standing \X Squares :
        /\ get_color(mv[1]) = Letter(side)
        /\ Validates(mv[1], mv[2])
        /\ \A st \in {MovedTo(mv[1], mv[2])} : ~is_in_check(st.board, st.pos, side)}

\* the side that has lost a finished game
Loser == IF game_state = "RED_WON" THEN "blue" ELSE "red"

\* C34: make_move sets the outcome to RED_WON or BLUE_WON only when the
\* losing side, in the resulting position, is in check and has no move at
\* all that make_move would accept if it were that side's turn, moves that
\* are neither a General move, a capture of the threat nor an interposition
\* included.
C34_MateLeavesNoMove ==
    game_state \in {"RED_WON", "BLUE_WON"} =>
        is_in_check(board, pos, Loser) /\ AcceptableMoves(Loser) = {}

\* the requests of the side on turn that make_move carries out: a pass, or
\* a move of one of its pieces
OpenRequests ==
    {rq \in Squares \X Squares :
        /\ rq[1] = rq[2] \/ (On(rq[1]) # NoPiece /\ Validates(On(rq[1]), rq[2]))
        /\ CarriedOut(Answer(rq))}

\* C35: in every reachable state whose outcome is UNFINISHED, the side on
\* turn has at least one request that make_move accepts: a pass when it is
\* not in check, otherwise a move that ends the check.  The game is never
\* left UNFINISHED with the side on turn in check and every request
\* rejected.
C35_SideOnTurnCanPlay ==
    game_state = "UNFINISHED" =>
        IF is_in_check(board, pos, OnTurn)
        THEN OpenRequests # {}
        ELSE CarriedOut(Answer(<<Sq(Ord.a, 1), Sq(Ord.a, 1)>>))

\* the side that is not on turn
OffTurn == IF turn = "R" THEN "blue" ELSE "red"

\* C36: in every reachable state whose outcome is UNFINISHED the General of
\* the side that is not on turn is not in check, so the two Generals are
\* never in check at the same time and no piece of the side on turn has a
\* validated move onto the square of the enemy General.
C36_OffTurnGeneralSafe ==
    game_state = "UNFINISHED" =>
        /\ ~is_in_check(board, pos, OffTurn)
        /\ ~(is_in_check(board, pos, "red") /\ is_in_check(board, pos, "blue"))
        /\ \A x \in Standing :
              get_color(x) = turn => ~Validates(x, pos[GeneralOf(OffTurn)])

\* the side on turn is in check while the other side is not; it has a
\* move that ends the check, and a validated move that would leave its
\* General in check for the other side to take
C36_Witness ==
    /\ game_state = "UNFINISHED"
    /\ is_in_check(board, pos, OnTurn)
    /\ ~is_in_check(board, pos, OffTurn)
    /\ AcceptableMoves(OnTurn) # {}
    /\ \E x \in Standing : \E q \in Squares :
          get_color(x) = turn /\ Validates(x, q) /\ <<x, q>> \notin AcceptableMoves(OnTurn)

\* the moves of a piece of side other than its General onto a square of
\* the capture path of one of the threats, after which side is not in check
RealBlocks(side) ==
    {mv \in AcceptableMoves(side) :
        /\ mv[1] \in Blockers(side)
        /\ \E x \in Threatening(side) : InList(mv[2], CapturePath(x, side))}

\* C37: whenever general_can_block(side) returns true, a piece of side
\* other than its General has a move onto a square of a threat's capture
\* path after which is_in_check(side) is false; a move that leaves side in
\* check (one that only captures the screen of a threatening Cannon, or a
\* blocker whose departure exposes the General to another piece) is not
\* counted as a block.
C37_BlockEndsTheCheck ==
    \A side \in Sides : CanBlock(side) => RealBlocks(side) # {}

\* the pieces on the squares of the board b
PiecesOn(b) == {At(b, rc) : rc \in Rows \X Cols} \ {NoPiece}

\* the squares of the board b that hold a piece
Occupied(b) == {rc \in Rows \X Cols : At(b, rc) # NoPiece}

\* the pieces of one side on the board b
SideOn(b, color) == {x \in PiecesOn(b) : get_color(x) = color}

\* every piece on the board is one of the 32 of the start and stands on one
\* square only, and neither side has more than 16
NoPieceCreated ==
    /\ PiecesOn(board) \subseteq Pieces
    /\ Cardinality(Occupied(board)) = Cardinality(PiecesOn(board))
    /\ \A color \in {"R", "B"} : Cardinality(SideOn(board, color)) <= 16

\* a step leaves the pieces on the board as they are, or takes off exactly
\* the enemy piece that stood where a piece of the side on turn now stands
OnlyCapturesRemove ==
    \/ PiecesOn(board') = PiecesOn(board)
    \/ \E x \in PiecesOn(board) :
          /\ PiecesOn(board') = PiecesOn(board) \ {x}
          /\ get_color(x) # turn
          /\ \E y \in PiecesOn(board) : get_color(y) = turn /\ pos'[y] = pos[x]
          /\ pos'[x] = CAPTURED

\* C38: across any sequence of make_move calls no piece is created: an
\* accepted capturing move takes exactly the enemy occupant of the
\* destination off the board, every other request leaves the pieces on the
\* board as they are, and neither side ever has more than 16.
C38_PiecesOnlyLeaveByCapture == []NoPieceCreated /\ [][OnlyCapturesRemove]_vars

\* a piece of each side has been captured, and the General of the side on
\* turn has a validated step onto an enemy piece, which general_can_escape
\* tries and takes back
C38_Witness ==
    /\ game_state = "UNFINISHED"
    /\ \A color \in {"R", "B"} : Cardinality(SideOn(board, color)) < 16
    /\ \E q \in Squares :
          /\ On(q) # NoPiece
          /\ Validates(GeneralOf(OnTurn), q)

\* the Generals and the Guards on the board
PalacePieces == {x \in Standing : TypeOf(x) \in {"General", "Guard"}}

\* C39: in every reachable state each General and each Guard on the board
\* stands on a square of its own side's Palace (Red: d1-f3, Blue: d8-f10),
\* and the board holds it there, even though the Palace test of the move
\* generator accepts the squares of either Palace.
C39_PalacePiecesStayHome ==
    \A x \in PalacePieces :
        /\ pos[x] \in PalaceOf(get_color(x))
        /\ On(pos[x]) = x

\* a General has stepped to the edge of its Palace with an empty square of
\* the board next to it outside the Palace, the other General and a Guard
\* have left the squares they started on, and the Palace test accepts the
\* squares of the opponent's Palace
C39_Witness ==
    /\ \E side \in Sides :
          \E q \in Neighbours(pos[GeneralOf(side)]) \cap Squares :
              /\ pos[GeneralOf(side)] # InitPos[GeneralOf(side)]
              /\ q \notin PalaceOf(Letter(side))
              /\ On(q) = NoPiece
    /\ \A side \in Sides : pos[GeneralOf(side)] # InitPos[GeneralOf(side)]
    /\ \E x \in PalacePieces : TypeOf(x) = "Guard" /\ pos[x] # InitPos[x]
    /\ \A q \in RedPalace \cup BluePalace : in_palace(q)

====
